---------------------------- MODULE Spec2Model ----------------------------
(***************************************************************************)
(* webReaper: the raw cache store (storage/raw_store.py, utils.py), the    *)
(* harvest phase and aggregation of the controller (core/controller.py)    *)
(* and the merge loop of the command line pipeline (cli.py).               *)
(*                                                                         *)
(* Strings are sequences of one-character strings, so that sanitising,    *)
(* serialising and parsing are computed character by character.           *)
(***************************************************************************)
EXTENDS Integers, Sequences, FiniteSets, TLC

(***************************************************************************)
(* Bounds of the model.                                                    *)
(***************************************************************************)
\* store operations (saves, interrupted saves, external writes) per behaviour
MaxOps == 2

(***************************************************************************)
(* Strings.                                                                *)
(***************************************************************************)
Lower == {"a","b","c","d","e","f","g","h","i","j","k","l","m",
          "n","o","p","q","r","s","t","u","v","w","x","y","z"}
Upper == {"A","B","C","D","E","F","G","H","I","J","K","L","M",
          "N","O","P","Q","R","S","T","U","V","W","X","Y","Z"}
Digit == {"0","1","2","3","4","5","6","7","8","9"}

\* a byte that is not valid UTF-8 (0xff)
BadByte == "<0xff>"

Min(a, b) == IF a <= b THEN a ELSE b
Max(a, b) == IF a >= b THEN a ELSE b

Take(s, n) == SubSeq(s, 1, Min(Len(s), n))

Drop(s, n) == SubSeq(s, n + 1, Len(s))

\* s[i..] starts with lit
StartsWithAt(s, i, lit) ==
    /\ i + Len(lit) - 1 <= Len(s)
    /\ \A j \in 1..Len(lit) : s[i + j - 1] = lit[j]

(***************************************************************************)
(* utils.py                                                                *)
(***************************************************************************)
MAX_SAFE_FILENAME_LENGTH == 90

\* the character class [a-zA-Z0-9._-]
IsSafeChar(c) == c \in Lower \cup Upper \cup Digit \cup {".", "_", "-"}

RECURSIVE DropUnsafe(_)
DropUnsafe(s) ==
    IF s # <<>> /\ ~IsSafeChar(Head(s)) THEN DropUnsafe(Tail(s)) ELSE s

\* re.sub(r'[^a-zA-Z0-9._-]+', '_', s): every maximal run of other
\* characters becomes one underscore
RECURSIVE SubUnsafe(_)
SubUnsafe(s) ==
    IF s = <<>> THEN <<>>
    ELSE IF IsSafeChar(Head(s)) THEN <<Head(s)>> \o SubUnsafe(Tail(s))
    ELSE <<"_">> \o SubUnsafe(DropUnsafe(s))

safe_name(s) == Take(SubUnsafe(s), MAX_SAFE_FILENAME_LENGTH)

(***************************************************************************)
(* JSON values and json.dumps(payload, indent=2) / json.loads.             *)
(* A value is a pair <<tag, payload>>; a dict's payload is a sequence of   *)
(* <<key, value>> pairs.                                                   *)
(***************************************************************************)
JNull == <<"null", 0>>
JBool(b) == <<"bool", b>>
JNum(n) == <<"num", n>>
JStr(s) == <<"str", s>>
JList(xs) == <<"list", xs>>
JDict(kvs) == <<"dict", kvs>>
Tag(x) == x[1]
Payload(x) == x[2]

\* a Python list of str as a JSON value
StrList(urls) == JList([i \in 1..Len(urls) |-> JStr(urls[i])])

DigitOf(d) ==
    CASE d = 0 -> "0" [] d = 1 -> "1" [] d = 2 -> "2" [] d = 3 -> "3"
      [] d = 4 -> "4" [] d = 5 -> "5" [] d = 6 -> "6" [] d = 7 -> "7"
      [] d = 8 -> "8" [] OTHER -> "9"

ValueOfDigit(c) ==
    CASE c = "0" -> 0 [] c = "1" -> 1 [] c = "2" -> 2 [] c = "3" -> 3
      [] c = "4" -> 4 [] c = "5" -> 5 [] c = "6" -> 6 [] c = "7" -> 7
      [] c = "8" -> 8 [] OTHER -> 9

RECURSIVE Decimal(_)
Decimal(n) ==
    IF n < 10 THEN <<DigitOf(n)>> ELSE Decimal(n \div 10) \o <<DigitOf(n % 10)>>

\* the escapes json.dumps writes inside a string (ensure_ascii): the quote,
\* the backslash and the newline are the ones in the model's alphabet
EscapeChar(c) ==
    CASE c = "\"" -> <<"\\", "\"">>
      [] c = "\\" -> <<"\\", "\\">>
      [] c = "\n" -> <<"\\", "n">>
      [] OTHER -> <<c>>

RECURSIVE EscapeString(_)
EscapeString(s) ==
    IF s = <<>> THEN <<>> ELSE EscapeChar(Head(s)) \o EscapeString(Tail(s))

DumpString(s) == <<"\"">> \o EscapeString(s) \o <<"\"">>

RECURSIVE Spaces(_)
Spaces(n) == IF n = 0 THEN <<>> ELSE <<" ">> \o Spaces(n - 1)

\* the line break json.dumps writes with indent=2 at nesting depth `level`
NewlineIndent(level) == <<"\n">> \o Spaces(2 * level)

RECURSIVE Dump(_, _)
RECURSIVE DumpItems(_, _, _)
\* the items of a list or dict, from the i-th, separated by "," and a line break
DumpItems(x, i, level) ==
    IF i > Len(Payload(x)) THEN <<>>
    ELSE (IF i > 1 THEN <<",">> \o NewlineIndent(level) ELSE <<>>)
         \o (IF Tag(x) = "dict"
             THEN DumpString(Payload(x)[i][1]) \o <<":", " ">> \o Dump(Payload(x)[i][2], level)
             ELSE Dump(Payload(x)[i], level))
         \o DumpItems(x, i + 1, level)

Dump(x, level) ==
    CASE Tag(x) = "null" -> <<"n","u","l","l">>
      [] Tag(x) = "bool" -> IF Payload(x) THEN <<"t","r","u","e">> ELSE <<"f","a","l","s","e">>
      [] Tag(x) = "num" -> Decimal(Payload(x))
      [] Tag(x) = "str" -> DumpString(Payload(x))
      [] Tag(x) = "list" ->
            IF Payload(x) = <<>> THEN <<"[", "]">>
            ELSE <<"[">> \o NewlineIndent(level + 1) \o DumpItems(x, 1, level + 1)
                 \o NewlineIndent(level) \o <<"]">>
      [] OTHER ->
            IF Payload(x) = <<>> THEN <<"{", "}">>
            ELSE <<"{">> \o NewlineIndent(level + 1) \o DumpItems(x, 1, level + 1)
                 \o NewlineIndent(level) \o <<"}">>

json_dumps(x) == Dump(x, 0)

Whitespace == {" ", "\n", "\t", "\r"}

RECURSIVE SkipWs(_, _)
SkipWs(s, i) ==
    IF i <= Len(s) /\ s[i] \in Whitespace THEN SkipWs(s, i + 1) ELSE i

\* a parse result: ok, the value, and the index after it
ParseFail == [ok |-> FALSE, v |-> JNull, i |-> 0]
ParseOk(val, next) == [ok |-> TRUE, v |-> val, i |-> next]

\* the body of a string, from index i (after the opening quote); the escapes
\* read are \" \\ \/ \n (json.loads also reads \b \f \r \t \uXXXX, which no
\* text of the model holds); a raw control character ends the parse
RECURSIVE ScanString(_, _, _)
ScanString(s, i, acc) ==
    IF i > Len(s) THEN ParseFail
    ELSE IF s[i] = "\"" THEN ParseOk(JStr(acc), i + 1)
    ELSE IF s[i] = "\\" THEN
        IF i + 1 > Len(s) THEN ParseFail
        ELSE IF s[i + 1] \in {"\"", "\\", "/"}
             THEN ScanString(s, i + 2, Append(acc, s[i + 1]))
        ELSE IF s[i + 1] = "n" THEN ScanString(s, i + 2, Append(acc, "\n"))
        ELSE ParseFail
    ELSE IF s[i] \in {"\n", "\t", "\r"} THEN ParseFail
    ELSE ScanString(s, i + 1, Append(acc, s[i]))

\* a non-negative integer: 0, or a run of digits not starting with 0
RECURSIVE ScanDigits(_, _, _)
ScanDigits(s, i, acc) ==
    IF i <= Len(s) /\ s[i] \in Digit
    THEN ScanDigits(s, i + 1, 10 * acc + ValueOfDigit(s[i]))
    ELSE ParseOk(JNum(acc), i)

ScanNumber(s, i) ==
    IF s[i] = "0" THEN ParseOk(JNum(0), i + 1) ELSE ScanDigits(s, i, 0)

RECURSIVE ParseValue(_, _)
RECURSIVE ParseElements(_, _, _)
RECURSIVE ParseMembers(_, _, _)

\* the elements of an array, from index i (at an element), acc the ones read
ParseElements(s, i, acc) ==
    LET r == ParseValue(s, i)
        k == SkipWs(s, r.i)
    IN  IF ~r.ok \/ k > Len(s) THEN ParseFail
        ELSE IF s[k] = "," THEN ParseElements(s, k + 1, Append(acc, r.v))
        ELSE IF s[k] = "]" THEN ParseOk(JList(Append(acc, r.v)), k + 1)
        ELSE ParseFail

\* the members of an object, from index i (at a key), acc the ones read
ParseMembers(s, i, acc) ==
    IF i > Len(s) \/ s[i] # "\"" THEN ParseFail
    ELSE LET key == ScanString(s, i + 1, <<>>)
             c == SkipWs(s, key.i)
         IN  IF ~key.ok \/ c > Len(s) \/ s[c] # ":" THEN ParseFail
             ELSE LET r == ParseValue(s, c + 1)
                      k == SkipWs(s, r.i)
                      kv == <<Payload(key.v), r.v>>
                  IN  IF ~r.ok \/ k > Len(s) THEN ParseFail
                      ELSE IF s[k] = ","
                           THEN ParseMembers(s, SkipWs(s, k + 1), Append(acc, kv))
                      ELSE IF s[k] = "}" THEN ParseOk(JDict(Append(acc, kv)), k + 1)
                      ELSE ParseFail

ParseValue(s, i0) ==
    LET i == SkipWs(s, i0)
    IN  IF i > Len(s) THEN ParseFail
        ELSE IF s[i] = "\"" THEN ScanString(s, i + 1, <<>>)
        ELSE IF s[i] \in Digit THEN ScanNumber(s, i)
        ELSE IF s[i] = "[" THEN
            LET j == SkipWs(s, i + 1)
            IN  IF j > Len(s) THEN ParseFail
                ELSE IF s[j] = "]" THEN ParseOk(JList(<<>>), j + 1)
                ELSE ParseElements(s, j, <<>>)
        ELSE IF s[i] = "{" THEN
            LET j == SkipWs(s, i + 1)
            IN  IF j > Len(s) THEN ParseFail
                ELSE IF s[j] = "}" THEN ParseOk(JDict(<<>>), j + 1)
                ELSE ParseMembers(s, j, <<>>)
        ELSE IF StartsWithAt(s, i, <<"n","u","l","l">>) THEN ParseOk(JNull, i + 4)
        ELSE IF StartsWithAt(s, i, <<"t","r","u","e">>) THEN ParseOk(JBool(TRUE), i + 4)
        ELSE IF StartsWithAt(s, i, <<"f","a","l","s","e">>) THEN ParseOk(JBool(FALSE), i + 5)
        ELSE ParseFail

\* json.loads: one value, then nothing but whitespace; ok = FALSE stands for
\* json.JSONDecodeError
json_loads(s) ==
    LET r == ParseValue(s, 1)
    IN  IF r.ok /\ SkipWs(s, r.i) = Len(s) + 1 THEN r ELSE ParseFail

\* 'key' in d
HasKey(d, key) == \E i \in 1..Len(Payload(d)) : Payload(d)[i][1] = key

\* d[key]: the last member of that name
RECURSIVE LookupFrom(_, _, _)
LookupFrom(d, key, i) ==
    IF Payload(d)[i][1] = key THEN Payload(d)[i][2] ELSE LookupFrom(d, key, i - 1)

GetItem(d, key) == LookupFrom(d, key, Len(Payload(d)))

(***************************************************************************)
(* Names, targets and URL lists of the store's operations.                 *)
(***************************************************************************)
Robots == <<"r","o","b","o","t","s">>
Sitemap == <<"s","i","t","e","m","a","p">>
Wayback == <<"w","a","y","b","a","c","k">>
Crtsh == <<"c","r","t","s","h">>

\* two targets that differ only in characters safe_name replaces
TargetPath == <<"a",".","i","o","/","x">>
TargetQuery == <<"a",".","i","o","/","?","x">>

\* a cache key: one source of one target (the output directory is fixed)
Key(source, target) == [source |-> source, target |-> target]
KEYS == {Key(Robots, TargetPath), Key(Robots, TargetQuery), Key(Sitemap, TargetPath)}

\* URL strings with the characters json.dumps escapes
UrlPlain == <<"h",":","/","/","a","/","x">>
UrlQuoted == <<"h",":","/","/","a","/","\"","\\">>

\* the URL lists saved: the empty list and a list of two URLs
DATA == {<<>>, <<UrlQuoted, UrlPlain>>}

\* the targets of a run: a URL, a bare host, and a URL that urlparse rejects
\* (an opening bracket in the host without the closing one)
TargetUrl == <<"h","t","t","p",":","/","/","a",".","i","o">>
TargetHost == <<"a",".","i","o">>
TargetBad == <<"h","t","t","p",":","/","/","[","a",".","i","o">>
TARGETS == {TargetUrl, TargetHost, TargetBad}

\* the sources of the controller in the order harvest() runs them
SOURCES == <<Robots, Sitemap, Wayback, Crtsh>>
RUNKEYS == {Key(SOURCES[i], t) : i \in 1..Len(SOURCES), t \in TARGETS}
ALLKEYS == KEYS \cup RUNKEYS

\* what the harvesters of a run find: a URL of the target, and a subdomain
UrlX == TargetUrl \o <<"/","x">>
SubB == <<"b",".">> \o TargetHost

\* the lists a harvester returns (sorted, without repeats; empty on failure)
UrlOutputs == {<<>>, <<UrlX>>, <<TargetUrl, UrlX>>}
CrtshOutputs == {<<>>, <<SubB>>}

\* the lists a snapshot left in the output directory can hold: what a run
\* saved, and a list that repeats a URL
RepeatedList == <<UrlX, UrlX>>
RUNDATA == UrlOutputs \cup CrtshOutputs \cup {RepeatedList}
ALLDATA == DATA \cup RUNDATA

(***************************************************************************)
(* storage/raw_store.py                                                    *)
(***************************************************************************)
\* a file of the output directory: absent, or its bytes
NoFile == [exists |-> FALSE, bytes |-> <<>>]
FileOf(b) == [exists |-> TRUE, bytes |-> b]

\* what a Python call gives: None, a value, or an exception raised
PyNone == [kind |-> "none", v |-> JNull]
PyValue(x) == [kind |-> "value", v |-> x]
PyRaise(e) == [kind |-> "raise", v |-> JStr(e)]

\* out_dir / f"raw_{source}_{safe_target}.json", as the file's name
get_raw_file_path(source, target) ==
    <<"r","a","w","_">> \o source \o <<"_">> \o safe_name(target)
        \o <<".","j","s","o","n">>

\* a payload that keeps the URL list under 'url' instead of 'urls'
Payload_of_url_key(source, target, data) ==
    JDict(<< <<<<"s","o","u","r","c","e">>, JStr(source)>>,
             <<<<"t","a","r","g","e","t">>, JStr(target)>>,
             <<<<"u","r","l","_","c","o","u","n","t">>, JNum(Len(data))>>,
             <<<<"u","r","l">>, StrList(data)>> >>)

\* the payload save_raw_data serialises
Payload_of(source, target, data) ==
    JDict(<< <<<<"s","o","u","r","c","e">>, JStr(source)>>,
             <<<<"t","a","r","g","e","t">>, JStr(target)>>,
             <<<<"u","r","l","_","c","o","u","n","t">>, JNum(Len(data))>>,
             <<<<"u","r","l","s">>, StrList(data)>> >>)

\* the text raw_file.write_text writes (ASCII, so the bytes are the characters)
SnapshotText(source, target, data) == json_dumps(Payload_of(source, target, data))

\* the file names and texts of the model's keys and URL lists, computed once
PathTable == [k \in ALLKEYS |-> get_raw_file_path(k.source, k.target)]
PathOf(k) == PathTable[k]
FILES == {PathOf(k) : k \in KEYS}
ALLFILES == {PathOf(k) : k \in ALLKEYS}
TextTable ==
    [k \in ALLKEYS |-> [d \in ALLDATA |-> SnapshotText(k.source, k.target, d)]]
TextOf(k, d) == TextTable[k][d]

\* save_raw_data: the files after the write has finished
save_raw_data(files, k, data) ==
    [files EXCEPT ![PathOf(k)] = FileOf(TextOf(k, data))]

\* raw_file.read_text(encoding='utf-8'): a byte that is not UTF-8 raises
\* UnicodeDecodeError, which is a ValueError and neither a JSONDecodeError
\* nor an IOError
read_text(file) ==
    IF \E i \in 1..Len(file.bytes) : file.bytes[i] = BadByte
    THEN PyRaise(<<"U","n","i","c","o","d","e","D","e","c","o","d","e","E","r","r","o","r">>)
    ELSE PyValue(JStr(file.bytes))

\* a parser that repairs truncated text: it closes what the text left open
Closers == {<<>>, <<"}">>, <<"]", "}">>, <<"\n", "]", "\n", "}">>,
            <<"\"", "]", "}">>}
json_loads_lenient(s) ==
    LET strict(t) ==
            LET r == ParseValue(t, 1)
            IN  IF r.ok /\ SkipWs(t, r.i) = Len(t) + 1 THEN r ELSE ParseFail
        fits == {c \in Closers : strict(s \o c).ok}
    IN  IF fits = {} THEN ParseFail ELSE strict(s \o CHOOSE c \in fits : TRUE)

\* a load that salvages the URLs of a truncated snapshot
LoadFileLenient(file) ==
    LET text == read_text(file)
        data == json_loads_lenient(Payload(text.v))
    IN  IF ~file.exists THEN PyNone
        ELSE IF text.kind = "raise" THEN text
        ELSE IF ~data.ok THEN PyNone
        ELSE IF Tag(data.v) = "dict" /\ HasKey(data.v, <<"u","r","l","s">>)
             THEN (IF GetItem(data.v, <<"u","r","l","s">>) = JNull THEN PyNone
                   ELSE PyValue(GetItem(data.v, <<"u","r","l","s">>)))
        ELSE PyNone

\* load_raw_data on the file at the key's path: None for a missing file, for
\* text json.loads rejects, and for JSON that is no dict with 'urls';
\* data['urls'] otherwise (None when it is null); an exception other than
\* JSONDecodeError and IOError propagates
LoadFile(file) ==
    LET text == read_text(file)
        data == json_loads(Payload(text.v))
    IN  IF ~file.exists THEN PyNone
        ELSE IF text.kind = "raise" THEN text
        ELSE IF ~data.ok THEN PyNone
        ELSE IF Tag(data.v) = "dict" /\ HasKey(data.v, <<"u","r","l","s">>)
             THEN (IF GetItem(data.v, <<"u","r","l","s">>) = JNull THEN PyNone
                   ELSE PyValue(GetItem(data.v, <<"u","r","l","s">>)))
        ELSE PyNone

\* contents a file can get from outside the program
NotJson == <<"n","o","t"," ","j","s","o","n","{","{","{">>
NotUtf8 == <<BadByte, "{", "}">>
JsonNoUrls == <<"{", "}">>
CorruptContents == {NotJson, NotUtf8, JsonNoUrls}

\* every content a file of the model can have: absent, a snapshot text or
\* a prefix of one, a content from outside; and what load gives on each
Prefixes(s) == {Take(s, n) : n \in 0..Len(s)}
CONTENTS ==
    {NoFile} \cup {FileOf(c) : c \in CorruptContents}
    \cup {FileOf(p) : p \in UNION {Prefixes(TextOf(k, d)) : k \in KEYS, d \in DATA}}
    \cup {FileOf(TextOf(k, d)) : k \in RUNKEYS, d \in RUNDATA}
LoadTable == [file \in CONTENTS |-> LoadFile(file)]

load_raw_data(files, k) == LoadTable[files[PathOf(k)]]

\* should_harvest: True without resume; with resume, whether load gave None
should_harvest(files, k, resume) ==
    LET r == load_raw_data(files, k)
    IN  IF ~resume THEN PyValue(JBool(TRUE))
        ELSE IF r.kind = "raise" THEN r
        ELSE PyValue(JBool(r.kind = "none"))

(***************************************************************************)
(* State.                                                                  *)
(***************************************************************************)
VARIABLES
    fs,         \* the output directory: file name -> NoFile or FileOf(bytes)
    hSaved,     \* history: key -> <<data of the last finished save>> or <<>>
    hTorn,      \* history: files whose last write was an interrupted save
    hTampered,  \* history: files whose last write came from outside the program
    lastWrite,  \* the last write to the directory
    lastRead,   \* the last load or should_harvest since that write
    ops,        \* writes so far
    cfg,        \* the options of the run: controller fields or command options
    pc,         \* where the run is
    idx,        \* the position of the next harvester in the declared order
    harvest_results,  \* the <<source, URL list>> pairs so far, in order
    hHarvest,   \* history: what harvest() did for each source
    all_urls,   \* controller: the set of URLs to probe
    url_to_sources,   \* controller: URL -> list of source tags
    url_sources,      \* command: URL -> set of source tags
    merged,     \* command: the URLs handed to the probe
    endpoints,  \* the probe results, in the order they came
    scored,     \* the rows the scoring loop has scored
    call,       \* a call of a pure function: its name and its arguments
    ret,        \* what the call returned, PyNone before it returns
    probe_tasks,    \* controller: the probe_endpoint coroutines gather() runs
    semaphore,  \* controller: self.semaphore, its value and its waiters
    now,        \* the clock of the event loop, in ticks
    hDispatch,  \* history: the time of each client.get of a probe
    exported    \* controller: what export_findings wrote

storeHist == <<hSaved, hTorn, hTampered, lastWrite, lastRead, ops>>
storeVars == <<fs, hSaved, hTorn, hTampered, lastWrite, lastRead, ops>>
fnVars == <<call, ret>>
probeVars == <<probe_tasks, semaphore, now, hDispatch, exported>>
runVars == <<cfg, pc, idx, harvest_results, hHarvest, all_urls, url_to_sources,
             url_sources, merged, endpoints, scored, fnVars, probeVars>>
vars == <<storeVars, runVars>>

NoWrite == [op |-> "none", file |-> <<>>, key |-> Key(<<>>, <<>>), data |-> <<>>]
NoRead == [op |-> "none", key |-> Key(<<>>, <<>>), resume |-> FALSE, result |-> PyNone]

\* no probe phase and no export yet
NoExport == [written |-> FALSE, findings_json |-> <<>>, report_md |-> <<>>]
ProbeIdle ==
    /\ probe_tasks = <<>>
    /\ semaphore = [value |-> 0, waiters |-> <<>>]
    /\ now = 0
    /\ hDispatch = <<>>
    /\ exported = NoExport

StoreInit ==
    /\ fs = [f \in ALLFILES |-> NoFile]
    /\ hSaved = [k \in KEYS |-> <<>>]
    /\ hTorn = {}
    /\ hTampered = {}
    /\ lastWrite = NoWrite
    /\ lastRead = NoRead
    /\ ops = 0

\* no run
NoConfig == [mode |-> "none"]
NoCall == [fn |-> "none"]
RunIdle ==
    /\ call = NoCall
    /\ ret = PyNone
    /\ cfg = NoConfig
    /\ pc = "idle"
    /\ idx = 0
    /\ harvest_results = <<>>
    /\ hHarvest = <<>>
    /\ all_urls = {}
    /\ url_to_sources = <<>>
    /\ url_sources = <<>>
    /\ merged = <<>>
    /\ endpoints = <<>>
    /\ scored = <<>>

(***************************************************************************)
(* Store operations.                                                       *)
(***************************************************************************)
\* save_raw_data(out_dir, k.source, k.target, d), run to its end
Save(k, d) ==
    /\ ops < MaxOps
    /\ fs' = save_raw_data(fs, k, d)
    /\ hSaved' = [hSaved EXCEPT ![k] = <<d>>]
    /\ hTorn' = hTorn \ {PathOf(k)}
    /\ hTampered' = hTampered \ {PathOf(k)}
    /\ lastWrite' = [op |-> "save", file |-> PathOf(k), key |-> k, data |-> d]
    /\ lastRead' = NoRead
    /\ ops' = ops + 1
    /\ UNCHANGED runVars

\* save_raw_data interrupted inside write_text: the file was truncated on
\* open and holds the first n characters of the text (n < its length).  One
\* interrupted save is followed at a time: until that file is rewritten.
SaveInterrupted(k, d, n) ==
    /\ ops < MaxOps
    /\ hTorn = {}
    /\ n < Len(TextOf(k, d))
    /\ fs' = [fs EXCEPT ![PathOf(k)] = FileOf(Take(TextOf(k, d), n))]
    /\ hTorn' = {PathOf(k)}
    /\ hTampered' = hTampered \ {PathOf(k)}
    /\ lastWrite' = [op |-> "torn", file |-> PathOf(k), key |-> k, data |-> d]
    /\ lastRead' = NoRead
    /\ ops' = ops + 1
    /\ UNCHANGED <<hSaved, runVars>>

\* the environment writes a file of the output directory
Corrupt(f, c) ==
    /\ ops < MaxOps
    /\ fs' = [fs EXCEPT ![f] = FileOf(c)]
    /\ hTampered' = hTampered \cup {f}
    /\ hTorn' = hTorn \ {f}
    /\ lastWrite' = [op |-> "corrupt", file |-> f, key |-> Key(<<>>, <<>>), data |-> <<>>]
    /\ lastRead' = NoRead
    /\ ops' = ops + 1
    /\ UNCHANGED <<hSaved, runVars>>

\* load_raw_data(out_dir, k.source, k.target)
Load(k) ==
    /\ lastRead' = [op |-> "load", key |-> k, resume |-> FALSE,
                    result |-> load_raw_data(fs, k)]
    /\ UNCHANGED <<fs, hSaved, hTorn, hTampered, lastWrite, ops, runVars>>

\* should_harvest(out_dir, k.source, k.target, resume)
ShouldHarvest(k, resume) ==
    /\ lastRead' = [op |-> "should_harvest", key |-> k, resume |-> resume,
                    result |-> should_harvest(fs, k, resume)]
    /\ UNCHANGED <<fs, hSaved, hTorn, hTampered, lastWrite, ops, runVars>>

Init == StoreInit /\ RunIdle /\ ProbeIdle

\* the store in uninterrupted runs, and the environment writing its files
Next ==
    \/ \E k \in KEYS, d \in DATA : Save(k, d)
    \/ \E f \in FILES, c \in CorruptContents : Corrupt(f, c)
    \/ \E k \in KEYS : Load(k)
    \/ \E k \in KEYS, resume \in BOOLEAN : ShouldHarvest(k, resume)

Spec == Init /\ [][Next]_vars

\* the store in runs that can be interrupted inside a save
NextTorn ==
    \/ \E k \in KEYS, d \in DATA : Save(k, d)
    \/ \E k \in KEYS, d \in DATA :
          \E n \in 0..(Len(TextOf(k, d)) - 1) : SaveInterrupted(k, d, n)
    \/ \E k \in KEYS : Load(k)

SpecTorn == Init /\ [][NextTorn]_vars

(***************************************************************************)
(* Claims about the store.                                                 *)
(***************************************************************************)
\* should_skip(name, resume) is `not should_harvest(...)`
SkipResult(b) == PyValue(JBool(~b))

\* C1: in any sequence of saves and loads (no file written from outside),
\* should_skip(name, resume) is true exactly when resume is set and name
\* has been saved: true after save(name, data) with resume, false without
\* resume, false for a name that was never saved.
C1_ShouldSkipExactlyWhenSaved ==
    (lastRead.op = "should_harvest" /\ hTampered = {})
        => lastRead.result =
              SkipResult(lastRead.resume /\ hSaved[lastRead.key] # <<>>)

C4_LoadNeverRaises ==
    lastRead.op = "load" =>
        /\ lastRead.result.kind # "raise"
        /\ (~fs[PathOf(lastRead.key)].exists => lastRead.result = PyNone)
        /\ (fs[PathOf(lastRead.key)].bytes \in {NotJson, NotUtf8}
                => lastRead.result = PyNone)

\* C5: whatever point a save was interrupted at, a later load returns absent
\* or the complete URL list of a finished save to that file, never a list of
\* a save that did not finish.
C5_NoTornSnapshotConsumed ==
    lastRead.op = "load" =>
        \/ lastRead.result = PyNone
        \/ \E k \in KEYS :
              /\ PathOf(k) = PathOf(lastRead.key)
              /\ hSaved[k] # <<>>
              /\ lastRead.result = PyValue(StrList(hSaved[k][1]))

\* a save of two URLs was interrupted before the last character, over a
\* finished snapshot, and the file was loaded
C5_Witness ==
    /\ lastRead.op = "load"
    /\ lastWrite.op = "torn"
    /\ lastWrite.file = PathOf(lastRead.key)
    /\ lastWrite.data = <<UrlQuoted, UrlPlain>>
    /\ Len(fs[lastWrite.file].bytes) = Len(TextOf(lastWrite.key, lastWrite.data)) - 1
    /\ hSaved[lastRead.key] # <<>>
    /\ lastRead.result = PyNone

\* C6: saves to different names never overwrite each other: every name that
\* was saved loads the data of its own last save.
C6_DifferentKeysDifferentFiles ==
    (lastRead.op = "load" /\ hTampered = {} /\ hSaved[lastRead.key] # <<>>)
        => lastRead.result = PyValue(StrList(hSaved[lastRead.key][1]))


(***************************************************************************)
(* urllib.parse, as cli.py uses it: urlparse, hostname, parse_qs.  URLs    *)
(* are ASCII strings; a netloc with balanced brackets is not modelled.     *)
(***************************************************************************)
LowerSeq == <<"a","b","c","d","e","f","g","h","i","j","k","l","m",
              "n","o","p","q","r","s","t","u","v","w","x","y","z">>
UpperSeq == <<"A","B","C","D","E","F","G","H","I","J","K","L","M",
              "N","O","P","Q","R","S","T","U","V","W","X","Y","Z">>

\* the printable ASCII characters, from 0x20 to 0x7e (the grave accent, which
\* a TLA+ string cannot hold, by its code)
Backtick == "<0x60>"
Ascii ==
   <<
      " ", "!", "\"", "#", "$", "%", "&", "'", "(", ")", "*", "+",
      ",", "-", ".", "/", "0", "1", "2", "3", "4", "5", "6", "7",
      "8", "9", ":", ";", "<", "=", ">", "?", "@", "A", "B", "C",
      "D", "E", "F", "G", "H", "I", "J", "K", "L", "M", "N", "O",
      "P", "Q", "R", "S", "T", "U", "V", "W", "X", "Y", "Z", "[",
      "\\", "]", "^", "_", Backtick, "a", "b", "c", "d", "e", "f", "g",
      "h", "i", "j", "k", "l", "m", "n", "o", "p", "q", "r", "s",
      "t", "u", "v", "w", "x", "y", "z", "{", "|", "}", "~"
   >>

\* str.lower
lower_char(c) ==
    IF c \in Upper THEN LowerSeq[CHOOSE i \in 1..Len(UpperSeq) : UpperSeq[i] = c] ELSE c
lower(s) == [i \in 1..Len(s) |-> lower_char(s[i])]

\* str.find(c, from): the first index >= from of a character of cs, or 0
RECURSIVE FindAny(_, _, _)
FindAny(s, cs, from) ==
    IF from > Len(s) THEN 0
    ELSE IF s[from] \in cs THEN from
    ELSE FindAny(s, cs, from + 1)

\* str.rfind(c): the last index of c, or 0
RECURSIVE RFind(_, _, _)
RFind(s, c, i) ==
    IF i = 0 THEN 0 ELSE IF s[i] = c THEN i ELSE RFind(s, c, i - 1)

\* c in s, sub in s, s.endswith(suf)
HasChar(s, c) == \E i \in 1..Len(s) : s[i] = c
Contains(s, sub) ==
    \E i \in 1..(Len(s) - Len(sub) + 1) : SubSeq(s, i, i + Len(sub) - 1) = sub
EndsWith(s, suf) ==
    Len(suf) <= Len(s) /\ SubSeq(s, Len(s) - Len(suf) + 1, Len(s)) = suf

\* s.split(c, 1) as <<head, tail>>; the tail is <<>> when c is not in s
Split1(s, c) ==
    LET i == FindAny(s, {c}, 1)
    IN  IF i = 0 THEN <<s, <<>>>> ELSE <<Take(s, i - 1), Drop(s, i)>>

\* s.split(c): the list of the pieces
RECURSIVE SplitAll(_, _)
SplitAll(s, c) ==
    LET i == FindAny(s, {c}, 1)
    IN  IF i = 0 THEN <<s>> ELSE <<Take(s, i - 1)>> \o SplitAll(Drop(s, i), c)

\* url.lstrip of spaces and control characters
RECURSIVE LStrip(_)
LStrip(s) ==
    IF s # <<>> /\ s[1] \in Whitespace THEN LStrip(Tail(s)) ELSE s

\* the removal of tab, carriage return and newline
IsUnsafeByte(c) == c \in {"\t", "\r", "\n"}
RemoveUnsafe(s) == SelectSeq(s, LAMBDA c : ~IsUnsafeByte(c))

scheme_chars == Lower \cup Upper \cup Digit \cup {"+", "-", "."}
uses_params == {<<>>, <<"f","t","p">>, <<"h","t","t","p">>, <<"h","t","t","p","s">>,
                <<"s","f","t","p">>, <<"s","i","p">>, <<"s","i","p","s">>,
                <<"t","e","l">>, <<"r","t","s","p">>, <<"r","t","s","p","u">>,
                <<"m","m","s">>, <<"h","d","l">>, <<"s","h","t","t","p">>,
                <<"i","m","a","p">>, <<"p","r","o","s","p","e","r","o">>}

\* urlsplit, step by step; ok = FALSE stands for ValueError("Invalid IPv6
\* URL").  The result of the last step:
SplitResult(scheme, netloc, frag, qry) ==
    [ok |-> HasChar(netloc, "[") <=> HasChar(netloc, "]"),
     scheme |-> scheme, netloc |-> netloc, path |-> qry[1],
     query |-> qry[2], fragment |-> frag[2]]

\* url.split('#', 1), then url.split('?', 1)
split_query(scheme, netloc, frag) ==
    SplitResult(scheme, netloc, frag, Split1(frag[1], "?"))

\* _splitnetloc(url, 2) at the first of '/', '?', '#' (delim = 0: none)
split_netloc_at(scheme, url, delim) ==
    IF delim = 0 THEN split_query(scheme, Drop(url, 2), Split1(<<>>, "#"))
    ELSE split_query(scheme, SubSeq(url, 3, delim - 1),
                     Split1(Drop(url, delim - 1), "#"))

\* if url[:2] == '//'
split_netloc(scheme, url) ==
    IF Take(url, 2) = <<"/", "/">>
    THEN split_netloc_at(scheme, url, FindAny(url, {"/", "?", "#"}, 3))
    ELSE split_query(scheme, <<>>, Split1(url, "#"))

\* i = url.find(':'): a scheme when the characters before it are scheme
\* characters and the first is a letter
split_scheme_at(url, i) ==
    IF /\ i > 1
       /\ url[1] \in Lower \cup Upper
       /\ \A j \in 1..(i - 1) : url[j] \in scheme_chars
    THEN split_netloc(lower(Take(url, i - 1)), Drop(url, i))
    ELSE split_netloc(<<>>, url)

split_scheme(url) == split_scheme_at(url, FindAny(url, {":"}, 1))

urlsplit(url) == split_scheme(RemoveUnsafe(LStrip(url)))

\* _splitparams: the path without the parameters of its last segment
splitparams_at(url, i) == IF i = 0 THEN url ELSE Take(url, i - 1)
splitparams_from(url, slash) ==
    splitparams_at(url, FindAny(url, {";"}, IF slash > 0 THEN slash ELSE 1))
splitparams_path(url) == splitparams_from(url, RFind(url, "/", Len(url)))

\* urlparse
with_params_split(r) ==
    IF r.scheme \in uses_params /\ HasChar(r.path, ";")
    THEN [r EXCEPT !.path = splitparams_path(r.path)]
    ELSE r
urlparse(url) == with_params_split(urlsplit(url))

\* ParseResult.hostname of a netloc without brackets; <<>> stands for None
lower_host(host, zone) ==
    IF zone = 0 THEN lower(host)
    ELSE lower(Take(host, zone - 1)) \o Drop(host, zone - 1)
host_of(host) == lower_host(host, FindAny(host, {"%"}, 1))
hostname(netloc) ==
    host_of(Split1(Drop(netloc, RFind(netloc, "@", Len(netloc))), ":")[1])

\* the value of a hexadecimal digit, or -1
HexDigits == <<"0","1","2","3","4","5","6","7","8","9","a","b","c","d","e","f">>
HexValue(c) ==
    IF \E i \in 1..Len(HexDigits) : HexDigits[i] = lower_char(c)
    THEN (CHOOSE i \in 1..Len(HexDigits) : HexDigits[i] = lower_char(c)) - 1
    ELSE -1

\* the code of the escape %XY, or -1 when X or Y is no hexadecimal digit
EscapeCode(hi, lo) == IF hi < 0 \/ lo < 0 THEN -1 ELSE hi * Len(HexDigits) + lo
EscapeAt(s) ==
    IF s[1] = "%" /\ Len(s) >= 3 THEN EscapeCode(HexValue(s[2]), HexValue(s[3]))
    ELSE -1

\* unquote: %XY becomes the character of that code (printable ASCII here;
\* other codes are kept as written), anything else is kept
RECURSIVE unquote(_)
RECURSIVE unquote_at(_, _)
unquote_at(s, code) ==
    IF code - 31 \in 1..Len(Ascii)
    THEN <<Ascii[code - 31]>> \o unquote(Drop(s, 3))
    ELSE <<s[1]>> \o unquote(Tail(s))
unquote(s) == IF s = <<>> THEN <<>> ELSE unquote_at(s, EscapeAt(s))

\* the keys of parse_qs(query, keep_blank_values=True)
PlusToSpace(s) == [i \in 1..Len(s) |-> IF s[i] = "+" THEN " " ELSE s[i]]
qs_keys(args) ==
    {unquote(PlusToSpace(Split1(args[i], "=")[1])) :
        i \in {j \in 1..Len(args) : args[j] # <<>>}}
parse_qs_keys(query) ==
    IF query = <<>> THEN {} ELSE qs_keys(SplitAll(query, "&"))

(***************************************************************************)
(* cli.py: the scope filter.                                               *)
(***************************************************************************)
\* a scope test on the characters the host ends with, without the dot
host_in_scope_suffix(host, scope_hosts, allow_subdomains) ==
    \/ scope_hosts = {}
    \/ \E sh \in scope_hosts :
          \/ lower(host) = lower(sh)
          \/ allow_subdomains /\ EndsWith(lower(host), lower(sh))

\* _host_in_scope
host_in_scope(host, scope_hosts, allow_subdomains) ==
    \/ scope_hosts = {}
    \/ \E sh \in scope_hosts :
          \/ lower(host) = lower(sh)
          \/ allow_subdomains /\ EndsWith(lower(host), <<".">> \o lower(sh))

\* the extension of the last path segment, with its dot; <<>> without one
LastSegment(path_lc) == Drop(path_lc, RFind(path_lc, "/", Len(path_lc)))
ext_of(last) ==
    IF HasChar(last, ".") THEN Drop(last, RFind(last, ".", Len(last)) - 1)
    ELSE <<>>

\* the checks of _filter_url on the host, on the path, on the query
host_allowed(host, pol) ==
    /\ host \notin {lower(h) : h \in pol.exclude_hosts}
    /\ host_in_scope(host, pol.scope_hosts, pol.allow_subdomains)

ext_allowed(ext, exclude_exts) ==
    ~(exclude_exts # {} /\ ext # <<>> /\ ext \in exclude_exts)

path_allowed(path_lc, pol) ==
    /\ (pol.include_path_tokens # <<>> =>
            \E i \in 1..Len(pol.include_path_tokens) :
                /\ pol.include_path_tokens[i] # <<>>
                /\ Contains(path_lc, lower(pol.include_path_tokens[i])))
    /\ \A i \in 1..Len(pol.exclude_path_tokens) :
            ~(/\ pol.exclude_path_tokens[i] # <<>>
              /\ Contains(path_lc, lower(pol.exclude_path_tokens[i])))
    /\ ext_allowed(ext_of(LastSegment(path_lc)), pol.exclude_exts)

query_allowed(qs, pol) ==
    /\ ~(pol.require_param /\ qs = {})
    /\ ~(pol.max_params >= 0 /\ Cardinality(qs) > pol.max_params)

\* _filter_url on the parsed URL
filter_parsed(p, pol) ==
    /\ p.ok
    /\ p.scheme # <<>>
    /\ p.netloc # <<>>
    /\ host_allowed(lower(hostname(p.netloc)), pol)
    /\ path_allowed(lower(p.path), pol)
    /\ query_allowed(parse_qs_keys(p.query), pol)

\* _filter_url(url, **policy)
filter_url(url, pol) == filter_parsed(urlparse(url), pol)

(***************************************************************************)
(* core/controller.py: WebReaperController.harvest and run.  The store     *)
(* calls of the controller (should_skip, load, save by source name) are    *)
(* the functions of storage/raw_store.py on the controller's target:       *)
(* should_skip is `not should_harvest`.                                    *)
(***************************************************************************)
Seed == <<"s","e","e","d">>

ToSet(q) == {q[i] : i \in 1..Len(q)}

\* the URL lists of the pairs, one after the other
RECURSIVE ConcatLists(_)
ConcatLists(pairs) ==
    IF pairs = <<>> THEN <<>> ELSE pairs[1][2] \o ConcatLists(Tail(pairs))

\* the options a controller is built with
SourceSets == {{}, {Robots}, {Robots, Wayback}, {Robots, Sitemap, Wayback, Crtsh}}
ControllerConfigs ==
    [mode : {"run"}, target : TARGETS, sources : SourceSets,
     resume : BOOLEAN, active : BOOLEAN]

\* what an earlier run, or anything else, left in the output directory
RobotsPrior(target) ==
    {NoFile, FileOf(NotUtf8),
     FileOf(TextOf(Key(Robots, target), <<>>)),
     FileOf(TextOf(Key(Robots, target), RepeatedList))}
CrtshPrior(target) == {NoFile, FileOf(TextOf(Key(Crtsh, target), <<SubB>>))}
PriorSnapshots(target) ==
    {[f \in ALLFILES |->
        IF f = PathOf(Key(Robots, target)) THEN r
        ELSE IF f = PathOf(Key(Crtsh, target)) THEN c
        ELSE NoFile] : r \in RobotsPrior(target), c \in CrtshPrior(target)}

\* what a harvester can return: harvest_robots and harvest_sitemap return []
\* for a target without scheme or host, and every harvester returns [] when
\* its request fails; robots.txt paths never give the bare target
SchemeAndHost(parsed) == parsed.scheme # <<>> /\ parsed.netloc # <<>>
HasSchemeAndHost(target) == SchemeAndHost(urlparse(target))
HarvestOutputs(source, target) ==
    IF source = Crtsh THEN CrtshOutputs
    ELSE IF source = Wayback THEN {<<>>, <<UrlX>>}
    ELSE IF ~HasSchemeAndHost(target) THEN {<<>>}
    ELSE IF source = Robots THEN {<<>>, <<UrlX>>}
    ELSE UrlOutputs

\* urlparse(target) is called outside the try block of every harvester:
\* harvest_robots and harvest_sitemap always call it, harvest_wayback and
\* harvest_crtsh when the target holds "://"
harvester_raises(source, target) ==
    /\ source \in {Robots, Sitemap} \/ Contains(target, <<":","/","/">>)
    /\ ~urlparse(target).ok

\* the first enabled source from position i on, or Len(SOURCES) + 1
NextEnabled(i, enabled) ==
    IF \E j \in i..Len(SOURCES) : SOURCES[j] \in enabled
    THEN CHOOSE j \in i..Len(SOURCES) :
            /\ SOURCES[j] \in enabled
            /\ \A l \in i..(j - 1) : SOURCES[l] \notin enabled
    ELSE Len(SOURCES) + 1

\* the Python list of strings of a JSON list of strings
UrlsOf(jlist) == [i \in 1..Len(Payload(jlist)) |-> Payload(Payload(jlist)[i])]

\* harvest(): the block of one enabled source.  should_skip raising, or the
\* harvester raising, ends harvest() and run() with the exception.
HarvestStep ==
    /\ cfg.mode = "run"
    /\ pc = "harvest"
    /\ LET source == SOURCES[idx]
           k == Key(source, cfg.target)
           before == load_raw_data(fs, k)
           go == should_harvest(fs, k, cfg.resume)
           next == NextEnabled(idx + 1, cfg.sources)
           after == IF next > Len(SOURCES) THEN "aggregate" ELSE "harvest"
       IN  IF go.kind = "raise"
           THEN /\ pc' = "raised"
                /\ UNCHANGED <<fs, idx, harvest_results, hHarvest>>
           ELSE IF go.v = JBool(FALSE)
           THEN /\ harvest_results' =
                       Append(harvest_results, <<source, UrlsOf(before.v)>>)
                /\ hHarvest' = Append(hHarvest,
                       [source |-> source, snapshot |-> before, invoked |-> 0,
                        result |-> UrlsOf(before.v), saved |-> before])
                /\ idx' = next
                /\ pc' = after
                /\ UNCHANGED fs
           ELSE IF harvester_raises(source, cfg.target)
           THEN /\ pc' = "harvester_raised"
                /\ UNCHANGED <<fs, idx, harvest_results, hHarvest>>
           ELSE \E urls \in HarvestOutputs(source, cfg.target) :
                /\ fs' = save_raw_data(fs, k, urls)
                /\ harvest_results' = Append(harvest_results, <<source, urls>>)
                /\ hHarvest' = Append(hHarvest,
                       [source |-> source, snapshot |-> before, invoked |-> 1,
                        result |-> urls, saved |-> load_raw_data(fs', k)])
                /\ idx' = next
                /\ pc' = after
    /\ UNCHANGED <<storeHist, fnVars, cfg, probeVars, all_urls, url_to_sources, url_sources,
                   merged, endpoints, scored>>

\* url_to_sources[url].append(source), the list created when missing
add_source_list(m, url, source) ==
    IF url \in DOMAIN m THEN [m EXCEPT ![url] = Append(@, source)]
    ELSE m @@ (url :> <<source>>)

RECURSIVE fold_urls(_, _, _)
fold_urls(m, source, urls) ==
    IF urls = <<>> THEN m
    ELSE fold_urls(add_source_list(m, Head(urls), source), source, Tail(urls))

\* for source, urls in harvest_results.items()
RECURSIVE fold_results(_, _)
fold_results(m, pairs) ==
    IF pairs = <<>> THEN m
    ELSE fold_results(fold_urls(m, pairs[1][1], pairs[1][2]), Tail(pairs))

\* f"{scheme}://{subdomain}" for scheme in ["https", "http"]
crtsh_urls(subdomain) ==
    << <<"h","t","t","p","s",":","/","/">> \o subdomain,
       <<"h","t","t","p",":","/","/">> \o subdomain >>

\* the crt.sh tag of an expanded URL, added once
add_crtsh(m, url) ==
    LET m1 == IF url \in DOMAIN m THEN m ELSE m @@ (url :> <<>>)
    IN  IF Crtsh \in ToSet(m1[url]) THEN m1
        ELSE [m1 EXCEPT ![url] = Append(@, Crtsh)]

RECURSIVE expand_crtsh(_, _)
expand_crtsh(m, subs) ==
    IF subs = <<>> THEN m
    ELSE expand_crtsh(
            add_crtsh(add_crtsh(m, crtsh_urls(Head(subs))[1]), crtsh_urls(Head(subs))[2]),
            Tail(subs))

\* harvest_results["crtsh"], or [] when crt.sh is not among the results
CrtshList(pairs) ==
    IF \E i \in 1..Len(pairs) : pairs[i][1] = Crtsh
    THEN pairs[CHOOSE i \in 1..Len(pairs) : pairs[i][1] = Crtsh][2]
    ELSE <<>>

\* url_to_sources after the seed, the harvested URLs and the crt.sh URLs
aggregate(target, pairs) ==
    expand_crtsh(fold_results((target :> <<Seed>>), pairs), CrtshList(pairs))

\* run(): the seed, the fold of the harvest results, the crt.sh expansion
Aggregate ==
    /\ cfg.mode = "run"
    /\ pc = "aggregate"
    /\ url_to_sources' = aggregate(cfg.target, harvest_results)
    /\ all_urls' = {cfg.target} \cup ToSet(ConcatLists(harvest_results))
                    \cup UNION {ToSet(crtsh_urls(sub)) :
                                  sub \in ToSet(CrtshList(harvest_results))}
    /\ pc' = "probe"
    /\ UNCHANGED <<storeVars, fnVars, cfg, probeVars, idx, harvest_results, hHarvest, url_sources,
                   merged, endpoints, scored>>

\* the orders a Python set of strings can be iterated in
Orderings(S) ==
    {q \in [1..Cardinality(S) -> S] :
        \A i, j \in 1..Cardinality(S) : i # j => q[i] # q[j]}

\* run(): no probe without active; else one probe per URL of the set
\* all_urls, gathered in the order the set is iterated (probe_endpoint
\* returns its record also when the request fails)
Probe ==
    /\ cfg.mode = "run"
    /\ pc = "probe"
    /\ IF ~cfg.active THEN endpoints' = <<>>
       ELSE \E order \in Orderings(all_urls) :
               endpoints' = [i \in 1..Len(order) |->
                               [url |-> order[i], sources |-> url_to_sources[order[i]]]]
    /\ pc' = "score"
    /\ UNCHANGED <<storeVars, fnVars, cfg, probeVars, idx, harvest_results, hHarvest, all_urls,
                   url_to_sources, url_sources, merged, scored>>

\* run(): the scoring loop takes every endpoint
Score ==
    /\ cfg.mode = "run"
    /\ pc = "score"
    /\ scored' = endpoints
    /\ pc' = "done"
    /\ UNCHANGED <<storeVars, fnVars, cfg, probeVars, idx, harvest_results, hHarvest, all_urls,
                   url_to_sources, url_sources, merged, endpoints>>


(***************************************************************************)
(* cli.py: _reap_impl.                                                     *)
(***************************************************************************)
Katana == <<"k","a","t","a","n","a">>
Gau == <<"g","a","u">>
Gospider == <<"g","o","s","p","i","d","e","r">>
Hakrawler == <<"h","a","k","r","a","w","l","e","r">>
Httpx == <<"h","t","t","p","x">>

\* the harvesting blocks in the order _reap_impl runs them; the robots block
\* harvests robots.txt and the sitemaps
TOOLS == <<Katana, Gau, Gospider, Hakrawler, Robots>>
ToolSets == {{}, {Gau}, {Katana, Gau, Robots}, {Gospider, Hakrawler, Robots}}

\* a URL of a subdomain of the target
UrlY == <<"h","t","t","p","s",":","/","/">> \o SubB \o <<"/","y">>

\* what the parser of a tool's output can give: the lines in their order,
\* repeated lines kept
ToolOutputs == {<<>>, <<UrlX>>, <<UrlY, UrlX, UrlY>>}
RobotsOutputs == {<<>>, <<UrlX>>}
\* the URL lists of the sitemaps fetched (at most three)
SitemapFetches == {<<>>, << <<UrlX>> >>, << <<UrlX>>, <<UrlY, UrlX>> >>}

\* the options of the command that the model varies
DEFAULT_MAX_URLS == 1500
DEFAULT_MAX_PARAMS == 10
SmallCap == 2
DefaultPolicy ==
    [scope_hosts |-> {}, allow_subdomains |-> FALSE, exclude_hosts |-> {},
     include_path_tokens |-> <<>>, exclude_path_tokens |-> <<>>,
     exclude_exts |-> {}, max_params |-> DEFAULT_MAX_PARAMS, require_param |-> FALSE]
ScopedPolicy == [DefaultPolicy EXCEPT !.scope_hosts = {TargetHost}]
POLICIES == {DefaultPolicy, ScopedPolicy}
\* the external tools, and the ones shutil.which finds when the command starts
EXTERNAL_TOOLS == {Httpx, Katana, Gau, Gospider, Hakrawler}
INSTALLED ==
    {EXTERNAL_TOOLS, {Httpx, Katana}, {Httpx, Gau}, {Katana, Gau, Gospider, Hakrawler}}
CommandConfigs ==
    [mode : {"reap"}, target : TARGETS, tools : ToolSets,
     max_urls : {0, SmallCap, DEFAULT_MAX_URLS}, policy : POLICIES, installed : INSTALLED]

\* a URL of another host, which httpx reports after following a redirect
UrlRedirected == <<"h","t","t","p",":","/","/","e","v","i","l","a",".","i","o","/","x">>

\* the filter on the URLs of the model, computed once
RUNURLS == TARGETS \cup {UrlX, UrlY, UrlRedirected}
FilterTable == [u \in RUNURLS |-> {pol \in POLICIES : filter_url(u, pol)}]
Keep(u, pol) == pol \in FilterTable[u]

\* the first enabled block from position i on, or Len(TOOLS) + 1
NextTool(i, enabled) ==
    IF \E j \in i..Len(TOOLS) : TOOLS[j] \in enabled
    THEN CHOOSE j \in i..Len(TOOLS) :
            /\ TOOLS[j] \in enabled
            /\ \A l \in i..(j - 1) : TOOLS[l] \notin enabled
    ELSE Len(TOOLS) + 1

\* base = _base_host(target): urlparse(target).hostname when the target holds
\* "://", outside any try block
base_host_raises(target) ==
    Contains(target, <<":","/","/">>) /\ ~urlparse(target).ok

\* required_tools with katana left out
required_tools_httpx_only(enabled) == {Httpx}

\* required_tools = ["httpx"], and "katana" if use_katana
required_tools(enabled) == {Httpx} \cup (enabled \cap {Katana})
\* optional_tools: gau, gospider, hakrawler when enabled
optional_tools(enabled) == enabled \cap {Gau, Gospider, Hakrawler}

\* check_dependencies: check_and_install_tool on each required tool, which
\* may install a missing one (installs: the tools it installed); check_tool
\* on each optional tool, which only prints.  Returns the tools on the PATH
\* afterwards and missing_required.
check_dependencies(required, optional, on_path, installs) ==
    [on_path |-> on_path \cup installs,
     available |-> (required \cup optional) \cap (on_path \cup installs),
     missing_required |-> required \ (on_path \cup installs)]

\* the start of _reap_impl: _base_host, then the dependency check: a
\* required tool missing ends the command with code 2; else
\* url_sources = {target: {"seed"}}
AfterDependencies(deps) ==
    /\ cfg' = [cfg EXCEPT !.installed = deps.on_path]
    /\ IF deps.missing_required # {}
       THEN pc' = "exit2" /\ UNCHANGED <<idx, url_sources>>
       ELSE /\ url_sources' = (cfg.target :> {Seed})
            /\ idx' = NextTool(1, cfg.tools)
            /\ pc' = IF NextTool(1, cfg.tools) > Len(TOOLS) THEN "merge" ELSE "harvest"
CheckDependencies ==
    /\ cfg.mode = "reap"
    /\ pc = "deps"
    /\ IF base_host_raises(cfg.target)
       THEN pc' = "raised" /\ UNCHANGED <<cfg, idx, url_sources>>
       ELSE \E installs \in SUBSET (required_tools(cfg.tools) \ cfg.installed) :
               AfterDependencies(check_dependencies(required_tools(cfg.tools),
                                                    optional_tools(cfg.tools),
                                                    cfg.installed, installs))
    /\ UNCHANGED <<storeVars, fnVars, probeVars, harvest_results, hHarvest, all_urls,
                   url_to_sources, merged, endpoints, scored>>

\* a fold that keeps only the first tag of a URL
add_source_set_first_only(m, u, tag) ==
    IF u \in DOMAIN m THEN m ELSE m @@ (u :> {tag})

\* url_sources.setdefault(u, set()).add(tag)
add_source_set(m, u, tag) ==
    IF u \in DOMAIN m THEN [m EXCEPT ![u] = @ \cup {tag}]
    ELSE m @@ (u :> {tag})

\* for u in parse_..._lines(out): ..._urls.append(u); the tag added
RECURSIVE fold_tool(_, _, _)
fold_tool(m, tag, urls) ==
    IF urls = <<>> THEN m
    ELSE fold_tool(add_source_set(m, Head(urls), tag), tag, Tail(urls))

RECURSIVE fold_pairs(_, _)
fold_pairs(m, pairs) ==
    IF pairs = <<>> THEN m
    ELSE fold_pairs(fold_tool(m, pairs[1][1], pairs[1][2]), Tail(pairs))

\* the block of katana, gau, gospider or hakrawler: a tool that is not
\* found gives no URL (FileNotFoundError is caught); a tool that runs longer
\* than the timeout makes subprocess.run raise TimeoutExpired, which the
\* block does not catch
ToolStep ==
    /\ cfg.mode = "reap"
    /\ pc = "harvest"
    /\ TOOLS[idx] # Robots
    /\ \/ /\ \E urls \in (IF TOOLS[idx] \in cfg.installed THEN ToolOutputs ELSE {<<>>}) :
                /\ harvest_results' = Append(harvest_results, <<TOOLS[idx], urls>>)
                /\ url_sources' = fold_tool(url_sources, TOOLS[idx], urls)
          /\ idx' = NextTool(idx + 1, cfg.tools)
          /\ pc' = IF NextTool(idx + 1, cfg.tools) > Len(TOOLS)
                   THEN "merge" ELSE "harvest"
       \/ /\ TOOLS[idx] \in cfg.installed
          /\ pc' = "harvester_raised"
          /\ UNCHANGED <<idx, harvest_results, url_sources>>
    /\ UNCHANGED <<storeVars, fnVars, cfg, probeVars, hHarvest, all_urls, url_to_sources, merged,
                   endpoints, scored>>

\* the robots block: the URLs of robots.txt, then those of each sitemap
RobotsStep ==
    /\ cfg.mode = "reap"
    /\ pc = "harvest"
    /\ TOOLS[idx] = Robots
    /\ \E robots_urls \in RobotsOutputs, sitemaps \in SitemapFetches :
          LET pairs == << <<Robots, robots_urls>> >>
                       \o [i \in 1..Len(sitemaps) |-> <<Sitemap, sitemaps[i]>>]
          IN  /\ harvest_results' = harvest_results \o pairs
              /\ url_sources' = fold_pairs(url_sources, pairs)
    /\ idx' = Len(TOOLS) + 1
    /\ pc' = "merge"
    /\ UNCHANGED <<storeVars, fnVars, cfg, probeVars, hHarvest, all_urls, url_to_sources, merged,
                   endpoints, scored>>

\* the loop over candidates: a URL already merged is skipped, a URL the
\* filter rejects is dropped, the loop ends at max_urls URLs
RECURSIVE merge_loop(_, _, _, _)
merge_loop(candidates, acc, pol, max_urls) ==
    IF candidates = <<>> THEN acc
    ELSE IF Head(candidates) \in ToSet(acc)
         THEN merge_loop(Tail(candidates), acc, pol, max_urls)
    ELSE IF ~Keep(Head(candidates), pol)
         THEN merge_loop(Tail(candidates), acc, pol, max_urls)
    ELSE IF Len(acc) + 1 >= max_urls THEN Append(acc, Head(candidates))
    ELSE merge_loop(Tail(candidates), Append(acc, Head(candidates)), pol, max_urls)

\* candidates = [target, *katana_urls, ..., *sitemap_urls]
Candidates(target, pairs) == <<target>> \o ConcatLists(pairs)

Merge ==
    /\ cfg.mode = "reap"
    /\ pc = "merge"
    /\ merged' = merge_loop(Candidates(cfg.target, harvest_results), <<>>,
                            cfg.policy, cfg.max_urls)
    /\ pc' = "probe"
    /\ UNCHANGED <<storeVars, fnVars, cfg, probeVars, idx, harvest_results, hHarvest, all_urls,
                   url_to_sources, url_sources, endpoints, scored>>

\* what a line of httpx gives for a URL: nothing (no answer), the URL, the
\* URL a redirect led to, or no "url" and no "input" field, which
\* parse_httpx_jsonlines turns into url = ""
ANSWERS == {"none", "url", "redirected", "nourl"}
RECURSIVE ProbeRows(_, _, _)
ProbeRows(q, answers, i) ==
    IF i > Len(q) THEN <<>>
    ELSE (IF answers[i] = "none" THEN <<>>
          ELSE IF answers[i] = "url" THEN << [url |-> q[i]] >>
          ELSE IF answers[i] = "redirected" THEN << [url |-> UrlRedirected] >>
          ELSE << [url |-> <<>>] >>)
         \o ProbeRows(q, answers, i + 1)

\* httpx on the merged URLs: it is not found (exit code 2), it fails without
\* output (exit code 1), or it prints one line for each URL that answered
HttpxProbe ==
    /\ cfg.mode = "reap"
    /\ pc = "probe"
    /\ \/ pc' = (IF Httpx \in cfg.installed THEN "exit1" ELSE "exit2") /\ UNCHANGED endpoints
       \/ \E answers \in [1..Len(merged) -> ANSWERS] :
             /\ Httpx \in cfg.installed
             /\ endpoints' = ProbeRows(merged, answers, 1)
             /\ pc' = "score"
    /\ UNCHANGED <<storeVars, fnVars, cfg, probeVars, idx, harvest_results, hHarvest, all_urls,
                   url_to_sources, url_sources, merged, scored>>

\* url_sources.get(url, set()) | {"httpx"}
row_sources(m, url) == (IF url \in DOMAIN m THEN m[url] ELSE {}) \cup {Httpx}

\* the loop over the httpx results: a result the filter rejects is dropped,
\* every other one is scored with its sources and "httpx"
ScoreRows ==
    /\ cfg.mode = "reap"
    /\ pc = "score"
    /\ LET kept == SelectSeq(endpoints,
                       LAMBDA ep : ep.url = <<>> \/ Keep(ep.url, cfg.policy))
       IN  scored' = [i \in 1..Len(kept) |->
                        [url |-> kept[i].url,
                         sources |-> row_sources(url_sources, kept[i].url)]]
    /\ pc' = "done"
    /\ UNCHANGED <<storeVars, fnVars, cfg, probeVars, idx, harvest_results, hHarvest, all_urls,
                   url_to_sources, url_sources, merged, endpoints>>

(***************************************************************************)
(* One run of the controller or of the command.                            *)
(***************************************************************************)
RunInit ==
    /\ ProbeIdle
    /\ hSaved = [k \in KEYS |-> <<>>]
    /\ hTorn = {}
    /\ hTampered = {}
    /\ lastWrite = NoWrite
    /\ lastRead = NoRead
    /\ ops = 0
    /\ call = NoCall
    /\ ret = PyNone
    /\ cfg \in ControllerConfigs \cup CommandConfigs
    /\ fs \in (IF cfg.mode = "run" THEN PriorSnapshots(cfg.target)
               ELSE {[f \in ALLFILES |-> NoFile]})
    /\ idx = (IF cfg.mode = "run" THEN NextEnabled(1, cfg.sources) ELSE 0)
    /\ pc = (IF cfg.mode = "reap" THEN "deps"
             ELSE IF NextEnabled(1, cfg.sources) > Len(SOURCES) THEN "aggregate"
             ELSE "harvest")
    /\ harvest_results = <<>>
    /\ hHarvest = <<>>
    /\ all_urls = {}
    /\ url_to_sources = <<>>
    /\ url_sources = <<>>
    /\ merged = <<>>
    /\ endpoints = <<>>
    /\ scored = <<>>

NextRun ==
    \/ HarvestStep
    \/ Aggregate
    \/ Probe
    \/ Score
    \/ CheckDependencies
    \/ ToolStep
    \/ RobotsStep
    \/ Merge
    \/ HttpxProbe
    \/ ScoreRows

SpecRun == RunInit /\ [][NextRun]_vars


(***************************************************************************)
(* Claims about the harvest phase and the aggregation.                     *)
(***************************************************************************)
\* C2: in the harvest phase, every enabled source is handled in one of two
\* ways: with resume and a snapshot, the harvester is not invoked and the
\* snapshot's list is the result, unvalidated; otherwise the harvester is
\* invoked exactly once and its result is the saved snapshot.
C2_ReuseSnapshotOrHarvestOnce ==
    (cfg.mode = "run" /\ pc # "harvest") =>
        \A source \in cfg.sources :
            /\ Cardinality({i \in 1..Len(hHarvest) : hHarvest[i].source = source}) = 1
            /\ \A i \in 1..Len(hHarvest) :
                  hHarvest[i].source = source =>
                     IF cfg.resume /\ hHarvest[i].snapshot.kind = "value"
                     THEN /\ hHarvest[i].invoked = 0
                          /\ StrList(hHarvest[i].result) = hHarvest[i].snapshot.v
                     ELSE /\ hHarvest[i].invoked = 1
                          /\ hHarvest[i].saved = PyValue(StrList(hHarvest[i].result))

\* the mapping of the run as sets of tags, once the pairs are folded
Folded ==
    \/ cfg.mode = "run" /\ pc \in {"probe", "score", "done"}
    \/ cfg.mode = "reap" /\ pc \in {"harvest", "merge", "probe", "score", "done", "exit1"}
TagSets ==
    IF cfg.mode = "run"
    THEN [u \in DOMAIN url_to_sources |-> ToSet(url_to_sources[u])]
    ELSE url_sources

\* the URLs a pair yields: those of its list, and for the controller's
\* crt.sh pair the two URLs of each subdomain
Yielded(mode, pair) ==
    ToSet(pair[2]) \cup
    (IF mode = "run" /\ pair[1] = Crtsh
     THEN UNION {ToSet(crtsh_urls(sub)) : sub \in ToSet(pair[2])}
     ELSE {})
Finders(mode, target, pairs, u) ==
    {pairs[i][1] : i \in {j \in 1..Len(pairs) : u \in Yielded(mode, pairs[j])}}
    \cup (IF u = target THEN {Seed} ELSE {})

\* the mapping, as sets of tags, that folding the pairs in another order gives
Reordered(pairs, order) == [i \in 1..Len(pairs) |-> pairs[order[i]]]
FoldedTagSets(mode, target, pairs) ==
    IF mode = "run"
    THEN [u \in DOMAIN aggregate(target, pairs) |->
            ToSet(aggregate(target, pairs)[u])]
    ELSE fold_pairs((target :> {Seed}), pairs)

\* C7 as stated: the sources of every URL are exactly the sources whose list
\* contained that very URL (and "seed" for the target).  The controller tags
\* https://<subdomain> and http://<subdomain> with "crtsh" although the crt.sh
\* list holds the subdomain only.
C7_SourcesAreThoseWhoseListContained ==
    Folded =>
        \A u \in DOMAIN TagSets :
            TagSets[u] =
               {harvest_results[i][1] :
                    i \in {j \in 1..Len(harvest_results) :
                              u \in ToSet(harvest_results[j][2])}}
               \cup (IF u = cfg.target THEN {Seed} ELSE {})

\* C7: after the fold, the set of sources of every URL is exactly the set of
\* sources whose list yielded it (and "seed" for the target), where the
\* controller's crt.sh list yields each subdomain and its https and http
\* URLs; a URL found by several sources keeps every tag, and folding the
\* same pairs in any other order gives the same URL-to-set-of-sources mapping.
C7_SourcesAreExactlyTheFinders ==
    Folded =>
        /\ DOMAIN TagSets = {cfg.target} \cup
              UNION {Yielded(cfg.mode, harvest_results[i]) : i \in 1..Len(harvest_results)}
        /\ \A u \in DOMAIN TagSets :
              TagSets[u] = Finders(cfg.mode, cfg.target, harvest_results, u)
        /\ (pc \in {"probe", "merge"} =>
              \A order \in Orderings(1..Len(harvest_results)) :
                 FoldedTagSets(cfg.mode, cfg.target,
                               Reordered(harvest_results, order)) = TagSets)

\* five pairs were folded, three different sources found the same URL, and
\* the target has its seed tag
C7_Witness ==
    /\ cfg.mode = "reap"
    /\ pc = "merge"
    /\ Len(harvest_results) = 5
    /\ UrlX \in DOMAIN url_sources
    /\ url_sources[UrlX] = {Katana, Gau, Sitemap}
    /\ url_sources[cfg.target] = {Seed}
    /\ UrlY \in DOMAIN url_sources

NoRepeats(q) == \A i, j \in 1..Len(q) : i # j => q[i] # q[j]

\* C8: a source folded again, or a list that repeats a URL, adds no second
\* candidate for the URL and no second occurrence of the source's tag.
C8_NoSecondCandidateNoSecondTag ==
    /\ NoRepeats(merged)
    /\ NoRepeats([i \in 1..Len(endpoints) |-> endpoints[i].url])
    /\ (cfg.mode = "run" =>
           \A u \in DOMAIN url_to_sources : NoRepeats(url_to_sources[u]))

\* the first occurrences of the elements of q, in their order
RECURSIVE FirstSeen(_, _)
FirstSeen(q, acc) ==
    IF q = <<>> THEN acc
    ELSE FirstSeen(Tail(q), IF Head(q) \in ToSet(acc) THEN acc ELSE Append(acc, Head(q)))

\* the URLs of the crt.sh subdomains, in the order the controller adds them
RECURSIVE ExpandedUrls(_)
ExpandedUrls(subs) ==
    IF subs = <<>> THEN <<>> ELSE crtsh_urls(Head(subs)) \o ExpandedUrls(Tail(subs))

\* C9: the sequence handed to the probe holds each URL once, at the place
\* of its first occurrence in the seed followed by the harvester outputs in
\* declared order (for the command: of the URLs the filter keeps, up to
\* max_urls), so identical inputs give the identical sequence.
C9_CandidatesInFirstSeenOrder ==
    /\ (cfg.mode = "reap" /\ pc \in {"probe", "score", "done", "exit1"}) =>
          merged = Take(SelectSeq(
                          FirstSeen(Candidates(cfg.target, harvest_results), <<>>),
                          LAMBDA u : Keep(u, cfg.policy)),
                        cfg.max_urls)
    /\ (cfg.mode = "run" /\ cfg.active /\ pc \in {"score", "done"}) =>
          [i \in 1..Len(endpoints) |-> endpoints[i].url] =
             FirstSeen(<<cfg.target>> \o ConcatLists(harvest_results)
                          \o ExpandedUrls(CrtshList(harvest_results)), <<>>)

\* C10: the target is a candidate tagged "seed" before any harvester output
\* is folded, and a run that completes has scored at least the seed's row,
\* whatever the target and whichever harvesters fail or are disabled.
C10_SeedRowReachesScoring ==
    /\ (cfg.mode = "run" /\ pc \in {"probe", "score", "done"}) =>
          Head(url_to_sources[cfg.target]) = Seed
    /\ (cfg.mode = "reap" /\ pc \in {"harvest", "merge", "probe", "score", "done"}) =>
          Seed \in url_sources[cfg.target]
    /\ (pc = "done" =>
          \E i \in 1..Len(scored) :
             /\ scored[i].url = cfg.target
             /\ Seed \in (IF cfg.mode = "run" THEN ToSet(scored[i].sources)
                          ELSE scored[i].sources))


(***************************************************************************)
(* Claims about failing harvesters, the scope filter and the scoring.      *)
(***************************************************************************)
\* C11: a harvester that fails in any way (tool missing, timeout, network
\* error, unparsable response, malformed target) never raises to the
\* pipeline: past the harvest phase every enabled source has contributed a
\* (possibly empty) list, and no run ends with a harvester's exception.
C11_FailingHarvesterNeverRaises ==
    /\ pc # "harvester_raised"
    /\ (cfg.mode = "run" /\ pc \in {"aggregate", "probe", "score", "done"}) =>
          \A source \in cfg.sources :
             \E i \in 1..Len(harvest_results) : harvest_results[i][1] = source
    /\ (cfg.mode = "reap" /\ pc \in {"merge", "probe", "score", "done"}) =>
          \A tool \in cfg.tools :
             \E i \in 1..Len(harvest_results) : harvest_results[i][1] = tool


(***************************************************************************)
(* cli.py: _filter_url called on its own, with the policy _reap_impl       *)
(* builds from the options of the command.                                 *)
(***************************************************************************)
\* str.strip()
RECURSIVE RStrip(_)
RStrip(s) ==
    IF s # <<>> /\ s[Len(s)] \in Whitespace THEN RStrip(Take(s, Len(s) - 1)) ELSE s
Strip(s) == RStrip(LStrip(s))

\* exclude_ext_norm: every extension stripped and lowercased, empty ones
\* dropped, the dot put in front when missing
with_dot(e) == IF e[1] = "." THEN e ELSE <<".">> \o e
exclude_ext_norm(exclude_ext) ==
    {with_dot(lower(Strip(e))) : e \in {x \in exclude_ext : Strip(x) # <<>>}}

\* the keyword arguments _reap_impl passes to _filter_url
policy_of(opts) ==
    [scope_hosts |-> opts.scope, allow_subdomains |-> opts.allow_subdomains,
     exclude_hosts |-> opts.exclude_host,
     include_path_tokens |-> opts.include_path,
     exclude_path_tokens |-> opts.exclude_path,
     exclude_exts |-> exclude_ext_norm(opts.exclude_ext),
     max_params |-> opts.max_params, require_param |-> opts.require_param]

\* _filter_url as a call: the ValueError of urlparse is caught and gives
\* False; nothing after the try block raises
filter_call(url, pol) ==
    IF urlparse(url).ok THEN PyValue(filter_url(url, pol)) ELSE PyValue(FALSE)

\* the strings the filter is called on
UrlEmpty == <<>>
UrlNoScheme == <<"a",".","i","o","/","x">>
UrlSchemeless == <<"/","/","a",".","i","o","/","x">>
UrlNoNetloc == <<"h","t","t","p",":","/","/","/","x">>
UrlNoHost == <<"h","t","t","p",":","/","/",":","8","0","/","x">>
UrlUpper == <<"H","T","T","P",":","/","/","A",".","I","O","/","A","d","m","i","n","/","x">>
UrlSub == <<"h","t","t","p",":","/","/","b",".","a",".","i","o","/","x","?","a","=","1">>
UrlLookalike == <<"h","t","t","p",":","/","/","e","v","i","l","a",".","i","o","/","x">>
UrlUserPort == <<"h","t","t","p",":","/","/","u","@","a",".","i","o",":","8","0","/","a","d","m","/">>
UrlPng == <<"h","t","t","p",":","/","/","a",".","i","o","/","x",".","P","N","G","?","a","=","1","&","b","=","2">>
UrlPngDir == <<"h","t","t","p",":","/","/","a",".","i","o","/","x",".","p","n","g","/","y">>
UrlTwoNames == <<"h","t","t","p",":","/","/","a",".","i","o","/","a","d","m","?","a","=","1","&","b">>
UrlOneName == <<"h","t","t","p",":","/","/","a",".","i","o","/","x","?","a","=","1","&","a","=","2">>
UrlLogout == <<"h","t","t","p",":","/","/","a",".","i","o","/","l","o","g","O","U","T">>
FILTER_URLS ==
    {UrlEmpty, UrlNoScheme, UrlSchemeless, UrlNoNetloc, UrlNoHost, TargetBad,
     TargetUrl, UrlUpper, UrlSub, UrlLookalike, UrlUserPort, UrlPng, UrlPngDir,
     UrlTwoNames, UrlOneName, UrlLogout}

\* the options of the command that make the policy
NoParamCap == -1
OneParam == 1
FILTER_OPTIONS ==
    [scope : {{}, {<<"A",".","i","o">>}},
     allow_subdomains : BOOLEAN,
     exclude_host : {{}, {<<"B",".","A",".","I","O">>}},
     include_path : {<<>>, <<<<"A","d","m">>>>},
     exclude_path : {<<>>, <<<<"O","U","T">>>>},
     exclude_ext : {{}, {<<" ","P","N","G">>}},
     max_params : {NoParamCap, OneParam, DEFAULT_MAX_PARAMS},
     require_param : BOOLEAN]
FilterCalls == [fn : {"_filter_url"}, url : FILTER_URLS, opts : FILTER_OPTIONS]

FilterInit ==
    /\ StoreInit
    /\ ProbeIdle
    /\ cfg = NoConfig
    /\ pc = "idle"
    /\ idx = 0
    /\ harvest_results = <<>>
    /\ hHarvest = <<>>
    /\ all_urls = {}
    /\ url_to_sources = <<>>
    /\ url_sources = <<>>
    /\ merged = <<>>
    /\ endpoints = <<>>
    /\ scored = <<>>
    /\ call \in FilterCalls
    /\ ret = PyNone

\* one call of _filter_url
FilterUrl ==
    /\ call.fn = "_filter_url"
    /\ ret.kind = "none"
    /\ ret' = filter_call(call.url, policy_of(call.opts))
    /\ UNCHANGED <<storeVars, cfg, probeVars, pc, idx, harvest_results, hHarvest, all_urls,
                   url_to_sources, url_sources, merged, endpoints, scored, call>>

NextFilter == FilterUrl
SpecFilter == FilterInit /\ [][NextFilter]_vars


\* the call of the filter that has returned, and the parts of its URL
FilterReturned == call.fn = "_filter_url" /\ ret.kind # "none"
ParsedUrl == urlparse(call.url)
UrlScheme == IF ParsedUrl.ok THEN ParsedUrl.scheme ELSE <<>>
UrlHost == IF ParsedUrl.ok THEN lower(hostname(ParsedUrl.netloc)) ELSE <<>>
UrlPathLc == IF ParsedUrl.ok THEN lower(ParsedUrl.path) ELSE <<>>
UrlParamNames == IF ParsedUrl.ok THEN parse_qs_keys(ParsedUrl.query) ELSE {}

\* C12: the scope filter is total: for every string (the empty string, a
\* string without scheme or host, a string the URL parser rejects) it
\* returns a boolean and never raises, and it returns false whenever the URL
\* lacks a non-empty scheme or a non-empty host.
C12_FilterIsTotalAndRejectsNoHost ==
    FilterReturned =>
        /\ ret.kind = "value"
        /\ ret.v \in BOOLEAN
        /\ (UrlScheme = <<>> \/ UrlHost = <<>>) => ret.v = FALSE

\* the host is a scope host, or with allowSubdomains ends with "." + scope host
HostInScope ==
    \E sh \in call.opts.scope :
        \/ UrlHost = lower(sh)
        \/ /\ call.opts.allow_subdomains
           /\ EndsWith(UrlHost, <<".">> \o lower(sh))
HostExcluded == UrlHost \in {lower(h) : h \in call.opts.exclude_host}

\* C13: a URL whose host is in excludeHosts, compared without case, is
\* rejected; with scope hosts a URL is kept only if its host equals a scope
\* host or, with allowSubdomains, ends with "." + scope host: a host that
\* only ends with the scope host's characters is rejected, and a subdomain
\* is rejected without allowSubdomains; with no scope hosts the decision is
\* the one made when the URL's own host is the scope.
C13_HostScoping ==
    (FilterReturned /\ ret.kind = "value") =>
        /\ HostExcluded => ret.v = FALSE
        /\ (call.opts.scope # {} /\ ret.v) => HostInScope
        /\ (call.opts.scope # {} /\ call.url = UrlLookalike) => ret.v = FALSE
        /\ (call.opts.scope # {} /\ call.url = UrlSub /\ ~call.opts.allow_subdomains)
              => ret.v = FALSE
        /\ (call.opts.scope = {} /\ UrlHost # <<>>) =>
              ret.v = filter_call(call.url,
                         [policy_of(call.opts) EXCEPT !.scope_hosts = {UrlHost}]).v

\* a subdomain of the scope host is kept with allowSubdomains, the scope
\* host being written in another case than the URL's
C13_Witness ==
    /\ FilterReturned
    /\ call.url = UrlSub
    /\ call.opts.scope # {}
    /\ call.opts.allow_subdomains
    /\ call.opts.exclude_host = {}
    /\ ret.kind = "value"
    /\ ret.v = TRUE

\* the eight rules of the scope policy on the URL of the call
Rule1_SchemeAndHost == UrlScheme # <<>> /\ UrlHost # <<>>
Rule2_NotExcludedHost == ~HostExcluded
Rule3_InScope == call.opts.scope = {} \/ HostInScope
Rule4_IncludeToken ==
    call.opts.include_path = <<>> \/
    \E i \in 1..Len(call.opts.include_path) :
        Contains(UrlPathLc, lower(call.opts.include_path[i]))
Rule5_NoExcludeToken ==
    \A i \in 1..Len(call.opts.exclude_path) :
        ~Contains(UrlPathLc, lower(call.opts.exclude_path[i]))
Rule6_ExtensionAllowed ==
    \A e \in call.opts.exclude_ext :
        Strip(e) # <<>> =>
            ext_of(LastSegment(UrlPathLc)) # with_dot(lower(Strip(e)))
Rule7_HasParam == call.opts.require_param => UrlParamNames # {}
Rule8_ParamCap ==
    call.opts.max_params >= 0 => Cardinality(UrlParamNames) <= call.opts.max_params

\* C14: keep(url, policy) is true exactly when the URL passes all eight
\* rules (scheme and host, excluded host, scope, include token, exclude
\* token, extension, required parameter, parameter cap); a negative
\* maxParams disables the cap; tokens and extensions match without case.
C14_KeepIffAllEightRules ==
    (FilterReturned /\ ret.kind = "value") =>
        (ret.v <=>
            /\ Rule1_SchemeAndHost
            /\ Rule2_NotExcludedHost
            /\ Rule3_InScope
            /\ Rule4_IncludeToken
            /\ Rule5_NoExcludeToken
            /\ Rule6_ExtensionAllowed
            /\ Rule7_HasParam
            /\ Rule8_ParamCap)


\* C15: the policy of the pre-probe candidate list is applied again after
\* the probe: every URL handed to the probe and every endpoint that is
\* scored passes the filter under the policy of the run, so no probe result
\* whose URL fails the filter (an empty URL, a URL redirected out of scope)
\* is scored.
C15_ScoredEndpointsPassTheFilter ==
    /\ (cfg.mode = "reap" /\ pc \in {"probe", "score", "done"}) =>
          \A i \in 1..Len(merged) : filter_url(merged[i], cfg.policy)
    /\ (cfg.mode = "reap" /\ pc = "done") =>
          \A i \in 1..Len(scored) : filter_url(scored[i].url, cfg.policy)


(***************************************************************************)
(* scoring.py computes the composite score with Python floats: binary64    *)
(* numbers, every product and sum rounded to 53 significant bits, ties to  *)
(* even.  A natural number is a sequence of bits, the least significant    *)
(* first; a float is [neg, m, e] of value (-1)^neg * m * 2^e, m of at most *)
(* 53 bits.                                                                *)
(***************************************************************************)
MantissaBits == 53

\* the bits without the zeros at the most significant end
Bit(cond) == IF cond THEN 1 ELSE 0
BitAt(a, i) == IF i <= Len(a) THEN a[i] ELSE 0
Zeros(k) == [i \in 1..k |-> 0]
TopBit(a) ==
    CHOOSE i \in 0..Len(a) :
        /\ i = 0 \/ a[i] = 1
        /\ SubSeq(a, i + 1, Len(a)) = Zeros(Len(a) - i)
BitsNorm(a) == SubSeq(a, 1, TopBit(a))

\* the bits of a natural number n, and the number of the bits a
RECURSIVE BitsOf(_)
BitsOf(n) == IF n = 0 THEN <<>> ELSE <<n % 2>> \o BitsOf(n \div 2)
RECURSIVE NatOf(_)
NatOf(a) == IF a = <<>> THEN 0 ELSE a[1] + 2 * NatOf(Tail(a))

\* sums and differences are taken LimbBits bits at a time
LimbBits == 15
LimbBase == 2 ^ LimbBits
NLimbs(len) == (len + LimbBits - 1) \div LimbBits
Limb(a, i) == NatOf(SubSeq(a, LimbBits * (i - 1) + 1, Min(Len(a), LimbBits * i)))
LimbOf(n) == [j \in 1..LimbBits |-> (n \div (2 ^ (j - 1))) % 2]

\* a + b
RECURSIVE AddLimbs(_, _, _, _, _)
AddLimbsStep(a, b, i, n, t) ==
    LimbOf(t % LimbBase) \o AddLimbs(a, b, i + 1, n, t \div LimbBase)
AddLimbs(a, b, i, n, carry) ==
    IF i > n THEN <<carry>>
    ELSE AddLimbsStep(a, b, i, n, Limb(a, i) + Limb(b, i) + carry)
BitsAdd(a, b) == BitsNorm(AddLimbs(a, b, 1, NLimbs(Max(Len(a), Len(b))), 0))

\* a - b for a >= b
RECURSIVE SubLimbs(_, _, _, _, _)
SubLimbsStep(a, b, i, n, t) ==
    LimbOf((t + LimbBase) % LimbBase) \o SubLimbs(a, b, i + 1, n, Bit(t < 0))
SubLimbs(a, b, i, n, borrow) ==
    IF i > n THEN <<>>
    ELSE SubLimbsStep(a, b, i, n, Limb(a, i) - Limb(b, i) - borrow)
BitsSub(a, b) == BitsNorm(SubLimbs(a, b, 1, NLimbs(Len(a)), 0))

\* a < b, for a and b without leading zeros: b is longer, or as long and
\* with a 1 at the highest position where they differ
BitsLess(a, b) ==
    \/ Len(a) < Len(b)
    \/ /\ Len(a) = Len(b)
       /\ \E i \in 1..Len(a) :
             /\ a[i] < b[i]
             /\ SubSeq(a, i + 1, Len(a)) = SubSeq(b, i + 1, Len(b))

\* a * 2^k
BitsShl(a, k) == IF a = <<>> THEN <<>> ELSE Zeros(k) \o a

\* a * n for a natural number n, by shifting and adding
RECURSIVE BitsTimes(_, _)
BitsTimes(a, n) ==
    IF n = 0 \/ a = <<>> THEN <<>>
    ELSE IF n % 2 = 1 THEN BitsAdd(a, <<0>> \o BitsTimes(a, n \div 2))
    ELSE <<0>> \o BitsTimes(a, n \div 2)

\* the bits from position k + 1 on, rounded on the k bits dropped: up when
\* they are more than half, or half and the kept number is odd
DroppedRoundsUp(a, k) ==
    /\ k >= 1
    /\ BitAt(a, k) = 1
    /\ \/ \E j \in 1..(k - 1) : BitAt(a, j) = 1
       \/ BitAt(a, k + 1) = 1
BitsShrRound(a, k) ==
    IF DroppedRoundsUp(a, k) THEN BitsAdd(Drop(a, k), <<1>>) ELSE BitsNorm(Drop(a, k))

\* the float of sign neg and exact value m * 2^e: m rounded to 53 bits
FloatZero == [neg |-> FALSE, m |-> <<>>, e |-> 0]
FloatRounded(neg, m, e, k) ==
    [neg |-> neg, m |-> BitsShrRound(m, k), e |-> e + k]
\* rounding up 2^53 - 1 gives 2^53, which has 54 bits, the lowest one zero
FloatFit(f) ==
    IF Len(f.m) > MantissaBits THEN [f EXCEPT !.m = Tail(f.m), !.e = f.e + 1] ELSE f
FloatOf(neg, m, e) ==
    IF m = <<>> THEN FloatZero
    ELSE IF Len(m) <= MantissaBits THEN [neg |-> neg, m |-> m, e |-> e]
    ELSE FloatFit(FloatRounded(neg, m, e, Len(m) - MantissaBits))


\* the bits after the binary point of r / den for r < den, the first one
\* last; the lowest bit says whether anything is left after them.  The
\* remainder after k bits is r * 2^k mod den.
FractionBits == 70
RECURSIVE Pow2Mod(_, _)
SquareMod(x, den) == (x * x) % den
Pow2Mod(k, den) ==
    IF k = 0 THEN 1 % den
    ELSE IF k % 2 = 0 THEN SquareMod(Pow2Mod(k \div 2, den), den)
    ELSE (2 * Pow2Mod(k - 1, den)) % den
RemAfter(r, den, k) == (r * Pow2Mod(k, den)) % den
FracBits(r, den, count) ==
    [j \in 1..(count + 1) |->
        IF j = 1 THEN Bit(RemAfter(r, den, count) > 0)
        ELSE Bit(2 * RemAfter(r, den, count + 1 - j) >= den)]

\* the float a decimal literal num / den denotes: the nearest one
FloatLiteral(neg, num, den) ==
    FloatOf(neg, BitsNorm(FracBits(num % den, den, FractionBits) \o BitsOf(num \div den)),
            0 - (FractionBits + 1))

\* inf and nan, which the format writes with the exponent it reserves: inf
\* with no mantissa bit set, nan with one set.  No finite number of the model
\* comes near the largest finite float, so none overflows to inf.
ReservedExponent == 1024
FloatInf(neg) == [neg |-> neg, m |-> <<>>, e |-> ReservedExponent]
FloatNaN == [neg |-> FALSE, m |-> <<1>>, e |-> ReservedExponent]
IsFinite(f) == f.e # ReservedExponent
IsNaN(f) == f.e = ReservedExponent /\ f.m # <<>>
IsInf(f) == f.e = ReservedExponent /\ f.m = <<>>

\* float * int for an int n >= 0 (the int is exact as a float)
FloatTimesInt(f, n) ==
    IF IsNaN(f) THEN FloatNaN
    ELSE IF IsInf(f) THEN (IF n = 0 THEN FloatNaN ELSE f)
    ELSE FloatOf(f.neg, BitsTimes(f.m, n), f.e)

\* float + float, on the numbers brought to the exponent e
FloatSum(xneg, a, yneg, b, e) ==
    IF xneg = yneg THEN FloatOf(xneg, BitsAdd(a, b), e)
    ELSE IF a = b THEN FloatZero
    ELSE IF BitsLess(a, b) THEN FloatOf(yneg, BitsSub(b, a), e)
    ELSE FloatOf(xneg, BitsSub(a, b), e)
FloatAddAt(x, y, e) ==
    FloatSum(x.neg, BitsShl(x.m, x.e - e), y.neg, BitsShl(y.m, y.e - e), e)
FloatAddFinite(x, y) ==
    IF x.m = <<>> THEN y
    ELSE IF y.m = <<>> THEN x
    ELSE FloatAddAt(x, y, Min(x.e, y.e))
FloatAdd(x, y) ==
    IF IsNaN(x) \/ IsNaN(y) THEN FloatNaN
    ELSE IF IsInf(x) THEN (IF IsInf(y) /\ x.neg # y.neg THEN FloatNaN ELSE x)
    ELSE IF IsInf(y) THEN y
    ELSE FloatAddFinite(x, y)

\* round(float) of a finite float: the nearest int, ties to the even one
Signed(neg, n) == IF neg THEN 0 - n ELSE n
FloatRound(f) ==
    IF f.e >= 0 THEN Signed(f.neg, NatOf(BitsShl(f.m, f.e)))
    ELSE Signed(f.neg, NatOf(BitsShrRound(f.m, 0 - f.e)))


(***************************************************************************)
(* scoring.py: the ReapScore of one endpoint.  Optional arguments are      *)
(* None or Some(value); strings are sequences of characters; weights and   *)
(* the confidence are floats.                                              *)
(***************************************************************************)
None == <<"None">>
Some(x) == <<"Some", x>>
IsNone(v) == v[1] = "None"

WEIGHT_KEYS == <<"harvest_index", "juice_score", "access_signal", "anomaly_signal">>
DEFAULT_WEIGHTS ==
    [harvest_index |-> FloatLiteral(FALSE, 30, 100),
     juice_score |-> FloatLiteral(FALSE, 35, 100),
     access_signal |-> FloatLiteral(FALSE, 20, 100),
     anomaly_signal |-> FloatLiteral(FALSE, 15, 100)]

HIGH_SIGNAL_PARAM_NAMES ==
    {<<"i","d">>, <<"u","i","d">>, <<"u","s","e","r">>, <<"u","s","e","r","n","a","m","e">>,
    <<"t","o","k","e","n">>, <<"a","u","t","h">>, <<"r","e","d","i","r","e","c","t">>,
    <<"n","e","x","t">>,
     <<"u","r","l">>, <<"u","r","i">>, <<"f","i","l","e">>, <<"p","a","t","h">>,
     <<"q","u","e","r","y">>, <<"s","e","a","r","c","h">>, <<"q">>, <<"d","e","s","t">>,
     <<"d","e","s","t","i","n","a","t","i","o","n">>, <<"r","e","t","u","r","n">>,
     <<"c","o","n","t","i","n","u","e">>, <<"c","a","l","l","b","a","c","k">>,
     <<"j","s","o","n","p">>, <<"a","p","i","_","k","e","y">>,
     <<"a","p","i","k","e","y">>, <<"k","e","y">>, <<"s","e","s","s","i","o","n">>,
     <<"s","e","s","s">>}
PATH_KEYWORDS ==
    {<<"a","d","m","i","n">>, <<"l","o","g","i","n">>, <<"s","i","g","n","i","n">>,
    <<"a","u","t","h">>, <<"s","s","o">>, <<"o","a","u","t","h">>, <<"a","p","i">>,
    <<"g","r","a","p","h","q","l">>,
     <<"s","w","a","g","g","e","r">>, <<"o","p","e","n","a","p","i">>, <<"d","e","b","u","g">>,
     <<"i","n","t","e","r","n","a","l">>, <<"u","p","l","o","a","d">>,
     <<"e","x","p","o","r","t">>,
     <<"d","o","w","n","l","o","a","d">>, <<"b","a","c","k","u","p">>,
     <<"c","o","n","f","i","g">>, <<"c","o","n","s","o","l","e">>,
     <<"d","a","s","h","b","o","a","r","d">>, <<"p","a","n","e","l">>,
     <<"m","a","n","a","g","e">>, <<"s","e","t","t","i","n","g","s">>,
     <<"a","c","c","o","u","n","t">>, <<"p","r","o","f","i","l","e">>}
DYNAMIC_EXTS == {<<".","p","h","p">>, <<".","a","s","p","x">>, <<".","a","s","p">>,
    <<".","j","s","p">>, <<".","d","o">>, <<".","a","c","t","i","o","n">>}

\* a clamp with the floor alone
clamp_unbounded(n) == Max(0, n)

\* clamp(n), with lo = 0 and hi = 100
clamp(n) == Max(0, Min(100, n))

\* _path_depth
NonEmpty(p) == p # <<>>
_path_depth(path) == Len(SelectSeq(SplitAll(path, "/"), NonEmpty))

\* _build_context, for a URL that urlparse accepts as p
dynamic_ext(path_lc) ==
    IF \E e \in DYNAMIC_EXTS : EndsWith(path_lc, e)
    THEN CHOOSE e \in DYNAMIC_EXTS : EndsWith(path_lc, e)
    ELSE <<>>
lower_names(names) == {lower(k) : k \in names}
context_of(c, p, param_names) ==
    [url |-> c.url, sources |-> lower_names(c.sources),
     host |-> hostname(p.netloc), path |-> p.path, path_lc |-> lower(p.path),
     param_names |-> param_names, param_count |-> Cardinality(param_names),
     ext |-> dynamic_ext(lower(p.path)),
     status |-> c.status, content_type |-> c.content_type,
     redirect_location |-> c.redirect_location,
     has_set_cookie |-> c.has_set_cookie, www_authenticate |-> c.www_authenticate,
     response_time_ms |-> c.response_time_ms,
     response_size_bytes |-> c.response_size_bytes,
     base_host |-> c.base_host, unique_path |-> c.unique_path,
     tech |-> IF IsNone(c.tech) THEN <<>> ELSE c.tech[2]]
_build_context(c, p) == context_of(c, p, lower_names(parse_qs_keys(p.query)))

\* H += points; reasons.append("rule (+points H)") when the rule's condition
\* holds: the entry of the trail, or nothing
Reason(rule, points, sub) == [rule |-> rule, points |-> points, sub |-> sub]
Rule(cond, rule, points, sub) == IF cond THEN <<Reason(rule, points, sub)>> ELSE <<>>
RECURSIVE Points(_)
Points(reasons) ==
    IF reasons = <<>> THEN 0 ELSE Head(reasons).points + Points(Tail(reasons))

\* a str that is neither None nor empty, and its text ("" for None)
Truthy(v) == ~IsNone(v) /\ v[2] # <<>>
OrEmpty(v) == IF IsNone(v) THEN <<>> ELSE v[2]
StatusIn(v, codes) == ~IsNone(v) /\ v[2] \in codes
Above(v, limit) == ~IsNone(v) /\ v[2] > limit

\* compute_harvest_index: the entries its rules append, and its return value
APP_CONTENT_TYPES == {<<"t","e","x","t","/","h","t","m","l">>,
    <<"a","p","p","l","i","c","a","t","i","o","n","/","j","s","o","n">>,
    <<"a","p","p","l","i","c","a","t","i","o","n","/","x","m","l">>}
new_host(ctx) ==
    /\ Truthy(ctx.base_host)
    /\ ctx.host # <<>>
    /\ ctx.host # ctx.base_host[2]
app_content_type(ctx) ==
    /\ Truthy(ctx.content_type)
    /\ \E ct \in APP_CONTENT_TYPES : Contains(lower(ctx.content_type[2]), ct)
harvest_rules(ctx) ==
    Rule(<<"k","a","t","a","n","a">> \in ctx.sources, "source:katana", 10, "H")
    \o Rule(<<"g","a","u">> \in ctx.sources, "source:gau", 15, "H")
    \o Rule(<<"g","o","s","p","i","d","e","r">> \in ctx.sources, "source:gospider", 12, "H")
    \o Rule(<<"h","a","k","r","a","w","l","e","r">> \in ctx.sources, "source:hakrawler", 12, "H")
    \o Rule(<<"r","o","b","o","t","s">> \in ctx.sources, "source:robots", 20, "H")
    \o Rule(<<"s","i","t","e","m","a","p">> \in ctx.sources, "source:sitemap", 18, "H")
    \o Rule(new_host(ctx), "new_host/vhost", 25, "H")
    \o Rule(_path_depth(ctx.path) >= 3, "path_depth>=3", 10, "H")
    \o Rule(app_content_type(ctx), "app_content_type", 10, "H")
    \o Rule(ctx.unique_path, "unique_path", 10, "H")
compute_harvest_index(ctx) == clamp(Points(harvest_rules(ctx)))

\* compute_juice_score
Segments(path_lc) == {SplitAll(path_lc, "/")[i] : i \in 1..Len(SplitAll(path_lc, "/"))}
path_keyword(ctx) ==
    \E kw \in PATH_KEYWORDS :
        kw \in Segments(ctx.path_lc) \/ Contains(ctx.path_lc, <<"/">> \o kw)
API_VERSIONS == {<<"/","v","1","/">>, <<"/","v","2","/">>, <<"/","v","3","/">>,
    <<"/","v","4","/">>}
api_versioned_path(ctx) ==
    /\ Contains(ctx.path_lc, <<"/","a","p","i","/">>)
    /\ \E v \in API_VERSIONS : Contains(ctx.path_lc, v)
juice_rules(ctx) ==
    Rule(ctx.param_names # {}, "has_params", 20, "J")
    \o Rule(ctx.param_count >= 3, "param_count>=3", 10, "J")
    \o Rule(ctx.param_names \cap HIGH_SIGNAL_PARAM_NAMES # {}, "high_signal_params", 20, "J")
    \o Rule(path_keyword(ctx), "path_keywords", 25, "J")
    \o Rule(ctx.ext # <<>>, "dynamic_ext", 10, "J")
    \o Rule(api_versioned_path(ctx), "api_versioned_path", 15, "J")
compute_juice_score(ctx) == clamp(Points(juice_rules(ctx)))

\* compute_access_signal
REDIRECTS == {301, 302, 303, 307, 308}
LOGIN_WORDS == {<<"l","o","g","i","n">>, <<"s","i","g","n","i","n">>, <<"a","u","t","h">>,
    <<"s","s","o">>, <<"o","a","u","t","h">>}
redirect_to_login(ctx) ==
    /\ StatusIn(ctx.status, REDIRECTS)
    /\ \E k \in LOGIN_WORDS : Contains(lower(OrEmpty(ctx.redirect_location)), k)
access_rules(ctx) ==
    Rule(StatusIn(ctx.status, {401}), "status:401", 40, "A")
    \o Rule(StatusIn(ctx.status, {403}), "status:403", 35, "A")
    \o Rule(redirect_to_login(ctx), "redirect_to_login", 25, "A")
    \o Rule(ctx.www_authenticate, "www_authenticate", 20, "A")
    \o Rule(ctx.has_set_cookie, "set_cookie_seen", 15, "A")
compute_access_signal(ctx) == clamp(Points(access_rules(ctx)))

\* compute_anomaly_signal
SERVER_ERRORS == 500..599
SLOW_MS == 2000
LARGE_BYTES == 1000000
anomaly_rules(ctx) ==
    Rule(StatusIn(ctx.status, SERVER_ERRORS), "status:5xx", 35, "N")
    \o Rule(Above(ctx.response_time_ms, SLOW_MS), "slow_response", 20, "N")
    \o Rule(Above(ctx.response_size_bytes, LARGE_BYTES), "large_response>1MB", 15, "N")
compute_anomaly_signal(ctx) == clamp(Points(anomaly_rules(ctx)))

Count(b) == IF b THEN 1 ELSE 0

\* a count of the fields that are not None, the empty string included; then
\* compute_confidence: the fields that are neither None nor "", and
\* min(1.0, 0.55 + 0.08 * observed)
observed_not_none(ctx) ==
    Count(~IsNone(ctx.status)) + Count(~IsNone(ctx.content_type))
    + Count(~IsNone(ctx.redirect_location))
    + Count(~IsNone(ctx.response_time_ms)) + Count(~IsNone(ctx.response_size_bytes))
observed(ctx) ==
    Count(~IsNone(ctx.status)) + Count(Truthy(ctx.content_type))
    + Count(Truthy(ctx.redirect_location))
    + Count(~IsNone(ctx.response_time_ms)) + Count(~IsNone(ctx.response_size_bytes))
FloatOne == FloatLiteral(FALSE, 1, 1)
\* x < y: x - y is negative and not zero
IsNegative(d) == d.neg /\ (d.m # <<>> \/ IsInf(d))
FloatLess(x, y) == IsNegative(FloatAdd(x, [y EXCEPT !.neg = ~y.neg]))
FloatMin(x, y) == IF FloatLess(y, x) THEN y ELSE x
confidence_of(n) ==
    FloatMin(FloatOne,
             FloatAdd(FloatLiteral(FALSE, 55, 100),
                      FloatTimesInt(FloatLiteral(FALSE, 8, 100), n)))
compute_confidence(ctx) == confidence_of(observed(ctx))

\* round(x, 2) of a float 0 <= x < 2^20: the float nearest to x rounded to
\* hundredths
Hundredths(f) ==
    IF f.e >= 0 THEN NatOf(BitsShl(BitsTimes(f.m, 100), f.e))
    ELSE NatOf(BitsShrRound(BitsTimes(f.m, 100), 0 - f.e))
round2(f) == FloatLiteral(f.neg, Hundredths(f), 100)

\* dict.update
updated(w, weights) ==
    [k \in DOMAIN w \cup DOMAIN weights |->
        IF k \in DOMAIN weights THEN weights[k] ELSE w[k]]

\* the caller's weights alone, where there are any
weights_replaced(c) ==
    IF IsNone(c.weights) \/ DOMAIN c.weights[2] = {} THEN DEFAULT_WEIGHTS
    ELSE [k \in DOMAIN DEFAULT_WEIGHTS |->
            IF k \in DOMAIN c.weights[2] THEN c.weights[2][k] ELSE FloatZero]

\* w = dict(DEFAULT_WEIGHTS); if weights: w.update(weights)
weights_of(c) ==
    IF IsNone(c.weights) \/ DOMAIN c.weights[2] = {} THEN DEFAULT_WEIGHTS
    ELSE updated(DEFAULT_WEIGHTS, c.weights[2])

\* tools/technology_scorer.py: HIGH_VALUE_TECH, in the order of the dict, as
\* <<pattern, bonus>>
HIGH_VALUE_TECH ==
    <<<<<<"p","h","p","m","y","a","d","m","i","n">>, 25>>,
      <<<<"a","d","m","i","n","e","r">>, 25>>,
      <<<<"w","o","r","d","p","r","e","s","s">>, 15>>,
      <<<<"d","r","u","p","a","l">>, 15>>,
      <<<<"j","o","o","m","l","a">>, 15>>,
      <<<<"g","r","a","p","h","q","l">>, 20>>,
      <<<<"s","w","a","g","g","e","r">>, 20>>,
      <<<<"o","p","e","n","a","p","i">>, 20>>,
      <<<<"r","e","s","t","-","a","p","i">>, 15>>,
      <<<<"x","d","e","b","u","g">>, 30>>,
      <<<<"p","h","p","i","n","f","o">>, 30>>,
      <<<<"l","a","r","a","v","e","l","-","d","e","b","u","g","b","a","r">>, 25>>,
      <<<<"s","y","m","f","o","n","y","-","p","r","o","f","i","l","e","r">>, 25>>,
      <<<<"m","y","s","q","l">>, 20>>,
      <<<<"p","o","s","t","g","r","e","s","q","l">>, 20>>,
      <<<<"m","o","n","g","o","d","b">>, 20>>,
      <<<<"r","e","d","i","s">>, 20>>,
      <<<<"t","o","m","c","a","t">>, 15>>,
      <<<<"j","b","o","s","s">>, 15>>,
      <<<<"w","e","b","l","o","g","i","c">>, 15>>,
      <<<<"w","e","b","s","p","h","e","r","e">>, 15>>,
      <<<<"s","t","r","u","t","s">>, 25>>,
      <<<<"s","p","r","i","n","g">>, 15>>,
      <<<<"f","l","a","s","k">>, 10>>,
      <<<<"d","j","a","n","g","o">>, 10>>,
      <<<<"r","a","i","l","s">>, 10>>,
      <<<<"a","p","a","c","h","e">>, 5>>,
      <<<<"n","g","i","n","x">>, 5>>,
      <<<<"i","i","s">>, 10>>,
      <<<<"o","a","u","t","h">>, 20>>,
      <<<<"s","a","m","l">>, 20>>,
      <<<<"j","w","t">>, 15>>,
      <<<<"k","e","y","c","l","o","a","k">>, 20>>,
      <<<<"o","k","t","a">>, 20>>>>

\* TechnologyScorer.score: for each detected technology and each pattern found
\* in its lowercased name, score += bonus and one entry "tech:name (+bonus T)";
\* the return value is min(100, score)
TechReason(tech, bonus) == [rule |-> "tech", points |-> bonus, sub |-> "T", tech |-> tech]
RECURSIVE tech_entries(_, _)
tech_entries(tech, k) ==
    IF k > Len(HIGH_VALUE_TECH) THEN <<>>
    ELSE (IF Contains(lower(tech), HIGH_VALUE_TECH[k][1])
          THEN <<TechReason(tech, HIGH_VALUE_TECH[k][2])>> ELSE <<>>)
         \o tech_entries(tech, k + 1)
RECURSIVE technology_entries(_)
technology_entries(tech_list) ==
    IF tech_list = <<>> THEN <<>>
    ELSE tech_entries(Head(tech_list), 1) \o technology_entries(Tail(tech_list))

\* the extensions loop on <<J, reasons>>.  An extension is what a call of it
\* does: the entries it appends to the trail, then a return of an int or a
\* raise of an Exception; for TechnologyScorer().score that depends on the
\* technologies of the context
ExtReturns(notes, bonus) == [kind |-> "returns", notes |-> notes, bonus |-> bonus]
ExtRaises(notes) == [kind |-> "raises", notes |-> notes, bonus |-> 0]
TechnologyScorer == [kind |-> "technology_scorer", notes |-> <<>>, bonus |-> 0]
technology_score(entries) == ExtReturns(entries, Min(100, Points(entries)))
ext_func(ext, ctx) ==
    IF ext.kind = "technology_scorer" THEN technology_score(technology_entries(ctx.tech))
    ELSE ext
\* a step that adds whatever an extension returns
extension_step_adding_all(jr, ext) ==
    IF ext.kind = "raises" THEN <<jr[1], jr[2] \o ext.notes>>
    ELSE <<clamp(jr[1] + ext.bonus), jr[2] \o ext.notes>>

\* try: bonus = ext_func(ctx, reasons); if bonus > 0: J = clamp(J + bonus)
\* except Exception: pass
extension_step(jr, ext) ==
    IF ext.kind = "raises" THEN <<jr[1], jr[2] \o ext.notes>>
    ELSE IF ext.bonus > 0 THEN <<clamp(jr[1] + ext.bonus), jr[2] \o ext.notes>>
    ELSE <<jr[1], jr[2] \o ext.notes>>
RECURSIVE extensions_loop(_, _, _, _)
extensions_loop(exts, i, jr, ctx) ==
    IF i > Len(exts) THEN jr
    ELSE extensions_loop(exts, i + 1, extension_step(jr, ext_func(exts[i], ctx)), ctx)
apply_extensions(c, jr, ctx) ==
    IF IsNone(c.extensions) THEN jr ELSE extensions_loop(c.extensions[2], 1, jr, ctx)

\* w["harvest_index"]*H + w["juice_score"]*J + w["access_signal"]*A
\* + w["anomaly_signal"]*N, added from left to right
weighted_sum(w, H, J, A, N) ==
    FloatAdd(FloatAdd(FloatAdd(FloatTimesInt(w.harvest_index, H),
                               FloatTimesInt(w.juice_score, J)),
                      FloatTimesInt(w.access_signal, A)),
             FloatTimesInt(w.anomaly_signal, N))

\* round(total), clamp, and the ReapResult; round raises on nan and on inf
SubScores(H, J, A, N) ==
    [harvest_index |-> H, juice_score |-> J, access_signal |-> A, anomaly_signal |-> N]
ReapResult(score, subs, reasons, confidence, w) ==
    [score |-> score, subs |-> subs, reasons |-> reasons,
     confidence |-> confidence, weights |-> w]
reap_result(total, subs, reasons, confidence, w) ==
    IF IsNaN(total) THEN PyRaise("ValueError")
    ELSE IF IsInf(total) THEN PyRaise("OverflowError")
    ELSE PyValue(ReapResult(clamp(FloatRound(total)), subs, reasons,
                            round2(confidence), w))
reap_scored(w, H, jr, A, N, confidence) ==
    reap_result(weighted_sum(w, H, jr[1], A, N), SubScores(H, jr[1], A, N),
                jr[2], confidence, w)
core_reasons(ctx) ==
    harvest_rules(ctx) \o juice_rules(ctx) \o access_rules(ctx) \o anomaly_rules(ctx)
reap_of_context(c, ctx) ==
    reap_scored(weights_of(c), compute_harvest_index(ctx),
                apply_extensions(c, <<compute_juice_score(ctx), core_reasons(ctx)>>, ctx),
                compute_access_signal(ctx), compute_anomaly_signal(ctx),
                compute_confidence(ctx))

\* compute_reapscore: urlparse raises ValueError on a URL it rejects
compute_reapscore(c) ==
    IF urlparse(c.url).ok THEN reap_of_context(c, _build_context(c, urlparse(c.url)))
    ELSE PyRaise("ValueError")

(***************************************************************************)
(* The calls of compute_reapscore that are checked.                        *)
(***************************************************************************)
UrlRoot == <<"h","t","t","p",":","/","/","a",".","i","o","/">>
UrlRich == <<"h","t","t","p",":","/","/","b",".","a",".","i","o","/","A","p","i","/","v","1","/","A","d","m","i","n",".","P","H","P","?","I","D","=","1","&","x","=","2","&","y","=","3">>
UrlParam == <<"h","t","t","p",":","/","/","a",".","i","o","/","x","?","a","=","1">>
UrlBare == <<"a",".","i","o","/","L","o","g","i","n">>
UrlApi == <<"h","t","t","p",":","/","/","a",".","i","o","/","a","p","i","/","v","1","/","?","i","d","=","1","&","x","=","2","&","y","=","3">>
SCORE_URLS == {UrlRoot, UrlRich, UrlApi, UrlParam, UrlBare, TargetBad}

\* sources, base_host, unique_path
AllSources == {<<"k","a","t","a","n","a">>, <<"g","a","u">>,
    <<"g","o","s","p","i","d","e","r">>, <<"h","a","k","r","a","w","l","e","r">>,
    <<"r","o","b","o","t","s">>, <<"s","i","t","e","m","a","p">>, <<"h","t","t","p","x">>}
Discovery(sources, base_host, unique_path) ==
    [sources |-> sources, base_host |-> base_host, unique_path |-> unique_path]
DISCOVERIES ==
    {Discovery({}, None, TRUE),
     Discovery({<<"h","t","t","p","x">>}, Some(<<"a",".","i","o">>), FALSE),
     Discovery({<<"K","a","t","a","n","a">>, <<"G","A","U">>,
         <<"h","t","t","p","x">>}, Some(<<"a",".","i","o">>), TRUE),
     Discovery({<<"r","o","b","o","t","s">>,
         <<"s","i","t","e","m","a","p">>}, Some(<<>>), FALSE),
     Discovery(AllSources, Some(<<"a",".","i","o">>), TRUE)}

\* status, content_type, redirect_location, has_set_cookie,
\* www_authenticate, response_time_ms, response_size_bytes
Probed(status, content_type, redirect_location, has_set_cookie,
       www_authenticate, response_time_ms, response_size_bytes, tech) ==
    [tech |-> tech, status |-> status, content_type |-> content_type,
     redirect_location |-> redirect_location, has_set_cookie |-> has_set_cookie,
     www_authenticate |-> www_authenticate, response_time_ms |-> response_time_ms,
     response_size_bytes |-> response_size_bytes]
\* technologies as httpx reports them
TechNginx == <<"N","g","i","n","x">>
TechMyAdmin == <<"p","h","p","M","y","A","d","m","i","n"," ","M","y","S","Q","L">>
TechGraphQL == <<"G","r","a","p","h","Q","L">>
TechCaddy == <<"C","a","d","d","y">>
PROBES ==
    {Probed(None, None, None, FALSE, FALSE, None, None, None),
     Probed(Some(401), Some(<<>>), None, TRUE, TRUE, None, None, Some(<<>>)),
     Probed(Some(403), Some(<<"T","e","x","t","/","H","T","M","L">>), None, FALSE, TRUE, None, None, Some(<<TechNginx>>)),
     Probed(Some(302), None, Some(<<"/","L","o","g","i","n">>), TRUE, FALSE, Some(SLOW_MS), None, None),
     Probed(Some(302), Some(<<"a","p","p","l","i","c","a","t","i","o","n","/","j","s","o","n">>), Some(<<"/","h","o","m","e">>),
            FALSE, FALSE,
            Some(SLOW_MS + 1), Some(LARGE_BYTES + 1), Some(<<TechMyAdmin, TechGraphQL>>)),
     Probed(Some(500), Some(<<"i","m","a","g","e","/","p","n","g">>), None, FALSE, FALSE,
            Some(SLOW_MS + 1), Some(LARGE_BYTES + 1), Some(<<TechCaddy>>)),
     Probed(Some(200), None, Some(<<>>), FALSE, FALSE, None, Some(LARGE_BYTES), None),
     Probed(None, Some(<<"t","e","x","t","/","h","t","m","l">>), None, FALSE, FALSE, None, None, None)}

\* weights: None, {}, or some keys
WEIGHTS ==
    {None,
     Some(<<>>),
     Some([juice_score |-> FloatLiteral(FALSE, 1, 2)]),
     Some([harvest_index |-> FloatLiteral(FALSE, 2, 1),
           juice_score |-> FloatLiteral(FALSE, 2, 1),
           extra |-> FloatLiteral(FALSE, 1, 1)]),
     Some([juice_score |-> FloatLiteral(TRUE, 1, 1)]),
     Some([anomaly_signal |-> FloatNaN]),
     Some([access_signal |-> FloatInf(FALSE)])}

\* extensions: None, [], or a list
TechBonus == 5
ExtTech == ExtReturns(<<Reason("tech:nginx", TechBonus, "T")>>, TechBonus)
ExtZero == ExtReturns(<<>>, 0)
ExtNegative == ExtReturns(<<>>, 0 - TechBonus)
ExtFails == ExtRaises(<<>>)
ExtAppendsThenFails == ExtRaises(<<Reason("tech:nginx", TechBonus, "T")>>)
EXTENSIONS ==
    {None,
     Some(<<TechnologyScorer>>),
     Some(<<ExtTech, ExtAppendsThenFails>>),
     Some(<<>>),
     Some(<<ExtTech>>),
     Some(<<ExtFails, ExtTech>>),
     Some(<<ExtNegative, ExtTech, ExtZero>>),
     Some(<<ExtTech, ExtFails, ExtTech>>)}

ReapCall(url, d, p, weights, extensions) ==
    [fn |-> "compute_reapscore", url |-> url, sources |-> d.sources,
     status |-> p.status, content_type |-> p.content_type,
     redirect_location |-> p.redirect_location,
     has_set_cookie |-> p.has_set_cookie, www_authenticate |-> p.www_authenticate,
     response_time_ms |-> p.response_time_ms,
     response_size_bytes |-> p.response_size_bytes,
     base_host |-> d.base_host, unique_path |-> d.unique_path,
     tech |-> p.tech, weights |-> weights, extensions |-> extensions]
ScoreCalls ==
    {ReapCall(url, d, p, weights, extensions) :
        url \in SCORE_URLS, d \in DISCOVERIES, p \in PROBES,
        weights \in WEIGHTS, extensions \in EXTENSIONS}

ScoreInit ==
    /\ StoreInit
    /\ ProbeIdle
    /\ cfg = NoConfig
    /\ pc = "idle"
    /\ idx = 0
    /\ harvest_results = <<>>
    /\ hHarvest = <<>>
    /\ all_urls = {}
    /\ url_to_sources = <<>>
    /\ url_sources = <<>>
    /\ merged = <<>>
    /\ endpoints = <<>>
    /\ scored = <<>>
    /\ call \in ScoreCalls
    /\ ret = PyNone

\* one call of compute_reapscore and its outcome
ComputeReapscore ==
    /\ call.fn = "compute_reapscore"
    /\ ret.kind = "none"
    /\ ret' = compute_reapscore(call)
    /\ UNCHANGED <<storeVars, cfg, probeVars, pc, idx, harvest_results, hHarvest, all_urls,
                   url_to_sources, url_sources, merged, endpoints, scored, call>>

NextScore == ComputeReapscore
SpecScore == ScoreInit /\ [][NextScore]_vars


(***************************************************************************)
(* Claims about compute_reapscore.                                         *)
(***************************************************************************)
ReapDone == call.fn = "compute_reapscore" /\ ret.kind # "none"
ReapReturned == call.fn = "compute_reapscore" /\ ret.kind = "value"
InRange(n) == n \in 0..100

\* C16: for every input of compute_reapscore (any URL, any sources, any probe
\* fields, any weights override, any extensions) the call returns a result,
\* and its composite score and its four subscores are integers from 0 to 100.
C16_ScoreAndSubscoresInRange ==
    ReapDone =>
        /\ ret.kind = "value"
        /\ InRange(ret.v.score)
        /\ \A k \in DOMAIN ret.v.subs : InRange(ret.v.subs[k])


\* C17: the composite score of every result is clamp(round(the sum over the
\* four subscores of weight * subscore)), computed in floats from the
\* subscores and the weights of that result, and the weights of the result
\* are the defaults overridden key by key by the caller's weights.
OverrideKeys(c) == IF IsNone(c.weights) THEN {} ELSE DOMAIN c.weights[2]
EchoedWeight(c, k) ==
    IF k \in OverrideKeys(c) THEN c.weights[2][k] ELSE DEFAULT_WEIGHTS[k]
C17_ScoreIsRoundedWeightedSum ==
    ReapReturned =>
        /\ ret.v.score =
              clamp(FloatRound(weighted_sum(ret.v.weights,
                                            ret.v.subs.harvest_index,
                                            ret.v.subs.juice_score,
                                            ret.v.subs.access_signal,
                                            ret.v.subs.anomaly_signal)))
        /\ DOMAIN ret.v.weights = DOMAIN DEFAULT_WEIGHTS \cup OverrideKeys(call)
        /\ \A k \in DOMAIN ret.v.weights : ret.v.weights[k] = EchoedWeight(call, k)

\* a result under a partial override: juice_score alone is given, at 0.5,
\* and J = 90 with H = 10 gives round(0.30 * 10 + 0.5 * 90) = 48
C17_Witness ==
    /\ ReapReturned
    /\ OverrideKeys(call) = {"juice_score"}
    /\ ret.v.weights.juice_score = FloatLiteral(FALSE, 1, 2)
    /\ ret.v.weights.harvest_index = DEFAULT_WEIGHTS.harvest_index
    /\ ret.v.subs.harvest_index = 10
    /\ ret.v.subs.juice_score = 90
    /\ ret.v.subs.access_signal = 0
    /\ ret.v.subs.anomaly_signal = 0
    /\ ret.v.score = 48


\* C18: each subscore of a result is min(100, the sum of the points of all of
\* its rules that fired): the points of the rules add up, no rule is clamped,
\* and the ceiling applies to the sum.  The rules that fired are those with an
\* entry in the trail; J also takes the positive bonuses of the extensions.
RECURSIVE SubPoints(_, _)
SubPoints(reasons, sub) ==
    IF reasons = <<>> THEN 0
    ELSE (IF Head(reasons).sub = sub THEN Head(reasons).points ELSE 0)
         + SubPoints(Tail(reasons), sub)
RECURSIVE PositiveBonuses(_)
PositiveBonuses(exts) ==
    IF exts = <<>> THEN 0
    ELSE (IF Head(exts).kind = "returns" /\ Head(exts).bonus > 0
          THEN Head(exts).bonus ELSE 0)
         + PositiveBonuses(Tail(exts))
\* what each extension of the call does on the technologies of the call
ExtensionsOf(c) ==
    IF IsNone(c.extensions) THEN <<>>
    ELSE [i \in 1..Len(c.extensions[2]) |->
             ext_func(c.extensions[2][i], [tech |-> OrEmpty(c.tech)])]
C18_SubscoreIsClampedSumOfRules ==
    ReapReturned =>
        /\ ret.v.subs.harvest_index = Min(100, SubPoints(ret.v.reasons, "H"))
        /\ ret.v.subs.juice_score =
              Min(100, SubPoints(ret.v.reasons, "J") + PositiveBonuses(ExtensionsOf(call)))
        /\ ret.v.subs.access_signal = Min(100, SubPoints(ret.v.reasons, "A"))
        /\ ret.v.subs.anomaly_signal = Min(100, SubPoints(ret.v.reasons, "N"))

\* ten rules of H fired for 142 points and H is 100, two rules of A fired
\* for 35 + 20 and A is 55
C18_Witness ==
    /\ ReapReturned
    /\ SubPoints(ret.v.reasons, "H") = 142
    /\ ret.v.subs.harvest_index = 100
    /\ SubPoints(ret.v.reasons, "A") = 55
    /\ ret.v.subs.access_signal = 55


\* C19: an extension that raises or returns a value that is not positive is
\* ignored: the four subscores and the composite score are those of the call
\* with that extension taken out of the list; the other extensions of the
\* list still run, and J is the J of the call without extensions plus their
\* positive bonuses, up to 100.
Ignored(ext) == ext.kind = "raises" \/ ext.bonus <= 0
Without(exts, i) == SubSeq(exts, 1, i - 1) \o SubSeq(exts, i + 1, Len(exts))
SameScores(r, other) ==
    /\ other.kind = "value"
    /\ other.v.subs = r.v.subs
    /\ other.v.score = r.v.score
JuiceWithout(c) == compute_reapscore([c EXCEPT !.extensions = None]).v.subs.juice_score
C19_IgnoredExtensionChangesNothing ==
    ReapReturned =>
        /\ \A i \in 1..Len(ExtensionsOf(call)) :
              Ignored(ExtensionsOf(call)[i]) =>
                 SameScores(ret, compute_reapscore(
                    [call EXCEPT !.extensions = Some(Without(call.extensions[2], i))]))
        /\ ret.v.subs.juice_score =
              Min(100, JuiceWithout(call) + PositiveBonuses(ExtensionsOf(call)))

\* the list holds an extension that raises between two that return a bonus,
\* and J went from 20 to 30
C19_Witness ==
    /\ ReapReturned
    /\ call.extensions = Some(<<ExtTech, ExtFails, ExtTech>>)
    /\ JuiceWithout(call) = 20
    /\ ret.v.subs.juice_score = 20 + 2 * TechBonus


\* C20: the confidence of a result is min(1.0, 0.55 + 0.08 * n), n being the
\* number of the fields status, content_type, redirect_location,
\* response_time_ms and response_size_bytes that are neither None nor the
\* empty string; with all five absent it is 0.55, and nothing else of the
\* call (URL, sources, subscores) enters it.
FieldsObserved(c) ==
    Bit(~IsNone(c.status)) + Bit(Truthy(c.content_type))
    + Bit(Truthy(c.redirect_location))
    + Bit(~IsNone(c.response_time_ms)) + Bit(~IsNone(c.response_size_bytes))
FieldsNotNone(c) ==
    Bit(~IsNone(c.status)) + Bit(~IsNone(c.content_type))
    + Bit(~IsNone(c.redirect_location))
    + Bit(~IsNone(c.response_time_ms)) + Bit(~IsNone(c.response_size_bytes))
ConfidenceFor(n) == FloatLiteral(FALSE, Min(100, 55 + 8 * n), 100)
C20_ConfidenceCountsNonEmptyFields ==
    ReapReturned => ret.v.confidence = ConfidenceFor(FieldsObserved(call))

\* status is 401 and content_type is the empty string: the confidence is 0.63
C20_Witness ==
    /\ ReapReturned
    /\ ~IsNone(call.status)
    /\ call.content_type = Some(<<>>)
    /\ FieldsObserved(call) = 1
    /\ ret.v.confidence = FloatLiteral(FALSE, 63, 100)

\* C20 as stated: n counts every field that is not absent, an empty string
\* included
C20_ConfidenceCountsNonAbsentFields ==
    ReapReturned => ret.v.confidence = ConfidenceFor(FieldsNotNone(call))



\* C21: the trail of a result is the entries of the rules that fired, in the
\* order HarvestIndex, JuiceScore, AccessSignal, AnomalySignal, followed by the
\* entries of the extensions that contributed points, in list order; an
\* extension that is ignored (it raised, or returned a bonus <= 0) leaves no
\* entry, so the trail has as many entries as rules and extensions contributed.
ContextOf(c) == _build_context(c, urlparse(c.url))
RECURSIVE ContributedEntries(_)
ContributedEntries(exts) ==
    IF exts = <<>> THEN <<>>
    ELSE (IF Ignored(Head(exts)) THEN <<>> ELSE Head(exts).notes)
         \o ContributedEntries(Tail(exts))
C21_TrailIsEntriesOfContributors ==
    ReapReturned =>
        ret.v.reasons = core_reasons(ContextOf(call))
                           \o ContributedEntries(ExtensionsOf(call))


\* C22: compute_reapscore never raises on a malformed URL: for a URL that the
\* URL parser rejects the call returns a result, and the rules that read the
\* URL (new host, path depth, and every rule of JuiceScore) contribute nothing.
UrlRules == {"new_host/vhost", "path_depth>=3"}
UrlDerived(entry) == entry.rule \in UrlRules \/ entry.sub = "J"
C22_MalformedUrlReturnsResult ==
    (ReapDone /\ ~urlparse(call.url).ok) =>
        /\ ret.kind = "value"
        /\ \A i \in 1..Len(ret.v.reasons) : ~UrlDerived(ret.v.reasons[i])


(***************************************************************************)
(* scoring/reapscore.py: the ReapScore the controller computes, a float    *)
(* from 0.0 to 1.0, and run(): the scoring loop, the findings and their    *)
(* export.                                                                 *)
(***************************************************************************)
\* a * b, MulBits bits at a time: the sums of the products of the limbs, and
\* their carries
MulBits == 13
MulBase == 2 ^ MulBits
MulLimbs(len) == (len + MulBits - 1) \div MulBits
MulLimb(a, i) ==
    IF MulBits * (i - 1) >= Len(a) THEN 0
    ELSE NatOf(SubSeq(a, MulBits * (i - 1) + 1, Min(Len(a), MulBits * i)))
MulDigits(n) == [j \in 1..MulBits |-> (n \div (2 ^ (j - 1))) % 2]
RECURSIVE ColumnSum(_, _, _, _)
ColumnSum(a, b, k, i) ==
    IF i > k THEN 0
    ELSE MulLimb(a, i) * MulLimb(b, k + 1 - i) + ColumnSum(a, b, k, i + 1)
RECURSIVE MulCarry(_, _, _, _, _)
MulCarryStep(a, b, k, n, t) ==
    MulDigits(t % MulBase) \o MulCarry(a, b, k + 1, n, t \div MulBase)
MulCarry(a, b, k, n, carry) ==
    IF k > n THEN BitsOf(carry)
    ELSE MulCarryStep(a, b, k, n, ColumnSum(a, b, k, 1) + carry)
BitsMul(a, b) ==
    IF a = <<>> \/ b = <<>> THEN <<>>
    ELSE BitsNorm(MulCarry(a, b, 1, MulLimbs(Len(a)) + MulLimbs(Len(b)) - 1, 0))

\* float * float for finite floats
FloatTimes(x, y) == FloatOf(x.neg # y.neg, BitsMul(x.m, y.m), x.e + y.e)
FloatMax(x, y) == IF FloatLess(x, y) THEN y ELSE x
Tenths(t) == FloatLiteral(FALSE, t, 10)

\* round(x, 3) of a float 0 <= x <= 1, in thousandths
Thousandths(f) ==
    IF f.e >= 0 THEN NatOf(BitsShl(BitsMul(f.m, BitsOf(1000)), f.e))
    ELSE NatOf(BitsShrRound(BitsMul(f.m, BitsOf(1000)), 0 - f.e))

CATEGORIES == <<"discovery", "params", "sensitivity", "tech", "anomalies", "third_party">>
CATEGORY_WEIGHTS ==
    [discovery |-> FloatLiteral(FALSE, 20, 100), params |-> FloatLiteral(FALSE, 25, 100),
     sensitivity |-> FloatLiteral(FALSE, 30, 100), tech |-> FloatLiteral(FALSE, 10, 100),
     anomalies |-> FloatLiteral(FALSE, 10, 100), third_party |-> FloatLiteral(FALSE, 5, 100)]

\* a signal of a category and its score in tenths, appended when its
\* condition holds
Signal(cond, name, category, tenths) ==
    IF cond THEN <<[name |-> name, category |-> category, tenths |-> tenths]>> ELSE <<>>

\* x_score = 0.0, then x_score += the score of each signal; min(1.0, x_score)
RECURSIVE signals_sum(_, _, _)
signals_sum(signals, i, acc) ==
    IF i > Len(signals) THEN acc
    ELSE signals_sum(signals, i + 1, FloatAdd(acc, Tenths(signals[i].tenths)))
category_score(signals) == FloatMin(FloatOne, signals_sum(signals, 1, FloatZero))

\* run(): the features of the URL that the scoring loop passes on
HIGH_VALUE_PARAMS == {<<"i","d">>, <<"u","s","e","r">>, <<"t","o","k","e","n">>, <<"a","u","t","h">>, <<"r","e","d","i","r","e","c","t">>, <<"u","r","l">>, <<"f","i","l","e">>, <<"p","a","t","h">>}
AUTH_KEYWORDS == {<<"l","o","g","i","n">>, <<"s","i","g","n","i","n">>, <<"a","u","t","h">>, <<"a","d","m","i","n">>, <<"o","a","u","t","h">>, <<"s","s","o">>}
API_KEYWORDS == {<<"a","p","i">>, <<"g","r","a","p","h","q","l">>, <<"r","e","s","t">>, <<"v","1">>, <<"v","2">>, <<"v","3">>}
THIRD_PARTY_INDICATORS == {<<"c","d","n",".">>, <<"s","t","a","t","i","c",".">>, <<"a","s","s","e","t","s",".">>, <<"s","3",".","a","m","a","z","o","n","a","w","s",".","c","o","m">>, <<"c","l","o","u","d","f","r","o","n","t",".","n","e","t">>}
url_features(endpoint, parsed, keys) ==
    [url |-> endpoint.url, sources |-> endpoint.sources,
     status_code |-> endpoint.status_code,
     has_params |-> keys # {}, param_count |-> Cardinality(keys),
     high_value_params |-> {k \in keys : lower(k) \in HIGH_VALUE_PARAMS},
     path_depth |-> _path_depth(parsed.path),
     has_auth_keywords |-> \E kw \in AUTH_KEYWORDS : Contains(lower(parsed.path), kw),
     has_api_keywords |-> \E kw \in API_KEYWORDS : Contains(lower(parsed.path), kw),
     header_signals |-> IF IsNone(endpoint.header_analysis) THEN {}
                        ELSE endpoint.header_analysis[2].signals,
     js_endpoints_found |-> Len(endpoint.js_endpoints),
     hostname |-> hostname(parsed.netloc)]
features_of(endpoint) ==
    url_features(endpoint, urlparse(endpoint.url), parse_qs_keys(urlparse(endpoint.url).query))

\* scoring/reapscore.py compute_reapscore: the signals of each category
InSources(f, name) == \E i \in 1..Len(f.sources) : lower(f.sources[i]) = name
discovery_signals(f) ==
    Signal(InSources(f, <<"w","a","y","b","a","c","k">>), "wayback_source", "discovery", 3)
    \o Signal(InSources(f, <<"r","o","b","o","t","s">>), "robots_source", "discovery", 4)
    \o Signal(InSources(f, <<"s","i","t","e","m","a","p">>), "sitemap_source", "discovery", 2)
    \o Signal(InSources(f, <<"c","r","t","s","h">>), "subdomain_discovery", "discovery", 5)
    \o Signal(f.path_depth >= 3, "deep_path", "discovery", 2)
params_signals(f) ==
    Signal(f.has_params, "has_params", "params", 3)
    \o Signal(f.param_count >= 3, "many_params", "params", 2)
    \o Signal(f.high_value_params # {}, "high_value_params", "params", 5)
sensitivity_signals(f) ==
    Signal(f.has_auth_keywords, "auth_keywords", "sensitivity", 6)
    \o Signal(f.has_api_keywords, "api_keywords", "sensitivity", 4)
    \o Signal(f.status_code = Some(401), "status_401", "sensitivity", 7)
    \o Signal(f.status_code = Some(403), "status_403", "sensitivity", 6)
    \o Signal("cors_wildcard" \in f.header_signals, "cors_wildcard", "sensitivity", 3)
    \o Signal("cors_misconfiguration" \in f.header_signals, "cors_misconfig", "sensitivity", 5)
    \o Signal("cookie_no_secure" \in f.header_signals
                 \/ "cookie_no_httponly" \in f.header_signals,
              "insecure_cookies", "sensitivity", 2)
tech_signals(f) ==
    Signal(f.js_endpoints_found > 0, "js_endpoints", "tech", 4)
    \o Signal("server_header_present" \in f.header_signals, "server_header", "tech", 1)
anomalies_signals(f) ==
    Signal(StatusIn(f.status_code, 500..599), "status_5xx", "anomalies", 6)
    \o Signal("no_csp" \in f.header_signals, "no_csp", "anomalies", 2)
    \o Signal("no_hsts" \in f.header_signals, "no_hsts", "anomalies", 2)
third_party_signals(f) ==
    Signal(\E ind \in THIRD_PARTY_INDICATORS : Contains(lower(f.hostname), ind),
           "third_party_domain", "third_party", 3)
category_signals(f) ==
    [discovery |-> discovery_signals(f), params |-> params_signals(f),
     sensitivity |-> sensitivity_signals(f), tech |-> tech_signals(f),
     anomalies |-> anomalies_signals(f), third_party |-> third_party_signals(f)]

\* sum(category_scores[cat] * w[cat] for cat in category_scores), from the
\* int 0 and in the order of the dict; then max(0.0, min(1.0, final_score))
RECURSIVE weighted_categories(_, _, _)
weighted_categories(sigs, i, acc) ==
    IF i > Len(CATEGORIES) THEN acc
    ELSE weighted_categories(sigs, i + 1,
             FloatAdd(acc, FloatTimes(category_score(sigs[CATEGORIES[i]]),
                                      CATEGORY_WEIGHTS[CATEGORIES[i]])))
final_score(sigs) ==
    FloatMax(FloatZero, FloatMin(FloatOne, weighted_categories(sigs, 1, FloatZero)))
reapscore_of(f) == final_score(category_signals(f))

\* ReapScore.to_dict: the score is round(self.score, 3)
to_dict(score) == [score |-> Thousandths(score)]


\* run(), step 3: one turn of the scoring loop.  The endpoint is kept, with
\* its ReapScore as a dict, when reapscore.score >= self.min_score
scored_endpoint(endpoint, score) ==
    [url |-> endpoint.url, sources |-> endpoint.sources,
     status_code |-> endpoint.status_code, reapscore |-> to_dict(score)]
score_step(scored_endpoints, endpoint, score, min_score) ==
    IF FloatLess(score, min_score) THEN scored_endpoints
    ELSE Append(scored_endpoints, scored_endpoint(endpoint, score))

\* write_report_md: sorted(endpoints, key=score, reverse=True) keeps the
\* endpoints of one score in the order they came, and [:top_n] is the slice
\* of Python
RECURSIVE sorted_by_score(_)
InsertByScore(sorted, e) ==
    LET k == Cardinality({i \in 1..Len(sorted) : sorted[i].reapscore.score >= e.reapscore.score})
    IN  SubSeq(sorted, 1, k) \o <<e>> \o SubSeq(sorted, k + 1, Len(sorted))
sorted_by_score(eps) ==
    IF eps = <<>> THEN <<>>
    ELSE InsertByScore(sorted_by_score(SubSeq(eps, 1, Len(eps) - 1)),
                       eps[Len(eps)])
SliceTo(s, n) == IF n >= 0 THEN SubSeq(s, 1, Min(n, Len(s))) ELSE SubSeq(s, 1, Len(s) + n)
\* the endpoints in the order they came, not sorted
top_endpoints_unsorted(eps, top_n) == SliceTo(eps, top_n)
top_endpoints(eps, top_n) == SliceTo(sorted_by_score(eps), top_n)


(***************************************************************************)
(* The scoring loop and the export of one run of the controller, on the    *)
(* endpoints the probe phase returned.                                     *)
(***************************************************************************)
Probed0(url, sources, status_code, header_analysis, js_endpoints) ==
    [url |-> url, sources |-> sources, status_code |-> status_code,
     header_analysis |-> header_analysis, js_endpoints |-> js_endpoints]
Signals(S) == Some([signals |-> S])
EpRobots == Probed0(UrlRoot, <<<<"r","o","b","o","t","s">>>>, None, None, <<>>)
EpWayback == Probed0(<<"h","t","t","p",":","/","/","a",".","i","o","/","o","l","d">>, <<<<"w","a","y","b","a","c","k">>>>, Some(200), Signals({"no_csp"}), <<>>)
EpDenied == Probed0(<<"h","t","t","p",":","/","/","a",".","i","o","/","x">>, <<>>, Some(401), Signals({"no_csp"}), <<>>)
EpLogin == Probed0(<<"h","t","t","p",":","/","/","a",".","i","o","/","L","o","g","i","n","?","n","e","x","t","=","1">>, <<<<"s","i","t","e","m","a","p">>, <<"w","a","y","b","a","c","k">>>>, Some(403),
                   Signals({"cors_wildcard", "server_header_present"}), <<<<"/","a","p","i","/","m","e">>>>)
EpCdn == Probed0(<<"h","t","t","p",":","/","/","c","d","n",".","a",".","i","o","/","a","/","b","/","c","?","x","=","1","&","y","=","2","&","z","=","3">>, <<<<"c","r","t","s","h">>>>, Some(500),
                 Signals({"no_csp", "no_hsts", "cookie_no_secure"}), <<>>)
ENDPOINTS == {EpRobots, EpWayback, EpDenied, EpLogin, EpCdn}
MaxBatch == 3
Batches ==
    {b \in UNION {[1..n -> ENDPOINTS] : n \in 0..MaxBatch} :
        \A i, j \in 1..Len(b) : i # j => b[i] # b[j]}
SmallTop == 2
TOPS == {0 - 1, 0, SmallTop, 50}
MIN_SCORES == {FloatZero, FloatLiteral(FALSE, 8, 100), FloatLiteral(FALSE, 23, 100)}

RankInit ==
    /\ StoreInit
    /\ ProbeIdle
    /\ call = NoCall
    /\ ret = PyNone
    /\ cfg \in {[mode |-> "rank", min_score |-> m, top |-> t] : m \in MIN_SCORES, t \in TOPS}
    /\ pc = "score"
    /\ idx = 1
    /\ harvest_results = <<>>
    /\ hHarvest = <<>>
    /\ all_urls = {}
    /\ url_to_sources = <<>>
    /\ url_sources = <<>>
    /\ merged = <<>>
    /\ endpoints \in Batches
    /\ scored = <<>>

\* one turn of: for endpoint in endpoints
ScoreEndpoint ==
    /\ cfg.mode = "rank"
    /\ pc = "score"
    /\ idx <= Len(endpoints)
    /\ scored' = score_step(scored, endpoints[idx],
                            reapscore_of(features_of(endpoints[idx])), cfg.min_score)
    /\ idx' = idx + 1
    /\ UNCHANGED <<storeVars, fnVars, cfg, probeVars, pc, harvest_results, hHarvest,
                   all_urls, url_to_sources, url_sources, merged, endpoints>>

\* steps 4 and 5: findings["endpoints"] = scored_endpoints, and
\* export_findings writes findings.json with them and REPORT.md with the top
ExportFindings ==
    /\ cfg.mode = "rank"
    /\ pc = "score"
    /\ idx > Len(endpoints)
    /\ exported' = [written |-> TRUE, findings_json |-> scored,
                    report_md |-> top_endpoints(scored, cfg.top)]
    /\ pc' = "done"
    /\ UNCHANGED <<storeVars, fnVars, cfg, probe_tasks, semaphore, now, hDispatch, idx,
                   harvest_results, hHarvest, all_urls, url_to_sources, url_sources,
                   merged, endpoints, scored>>

NextRank == ScoreEndpoint \/ ExportFindings
SpecRank == RankInit /\ [][NextRank]_vars


(***************************************************************************)
(* Claims about the ranking of the controller.                             *)
(***************************************************************************)
RankDone == cfg.mode = "rank" /\ pc = "done"
ScoreOf(endpoint) == reapscore_of(features_of(endpoint))
Scored(endpoint, score) ==
    [url |-> endpoint.url, score |-> Thousandths(score),
     qualifies |-> ~FloatLess(score, cfg.min_score)]
AllScored == [i \in 1..Len(endpoints) |-> Scored(endpoints[i], ScoreOf(endpoints[i]))]
Qualifies(record) == record.qualifies
QualifyingScored == SelectSeq(AllScored, Qualifies)

\* the place of the i-th record in the ranking: after every record of a
\* higher score and after the earlier records of the same score
RankOf(q, i) ==
    1 + Cardinality({j \in 1..Len(q) :
                        \/ q[j].score > q[i].score
                        \/ q[j].score = q[i].score /\ j < i})
IsRanking(r, q, top) ==
    /\ Len(r) = Min(top, Len(q))
    /\ \A i \in 1..Len(q) :
          RankOf(q, i) <= top =>
             /\ r[RankOf(q, i)].url = q[i].url
             /\ r[RankOf(q, i)].reapscore.score = q[i].score

InScoringOrder(r, q) ==
    /\ Len(r) = Len(q)
    /\ \A i \in 1..Len(q) : r[i].url = q[i].url /\ r[i].reapscore.score = q[i].score
ProbeTask(url) ==
    [url |-> url, pc |-> "created", wake |-> 0, failed |-> FALSE, html |-> FALSE,
     status_code |-> None, header_analysis |-> None, js_endpoints |-> <<>>]

\* the coroutines and the semaphore, changed together by one step
Loop(tasks, sem) == [tasks |-> tasks, sem |-> sem]

\* Semaphore.locked: no slot is free, or somebody is waiting already
locked(sem) == sem.value = 0 \/ sem.waiters # <<>>

\* Semaphore._wake_up_next: the first waiter not yet woken takes a slot
NotWoken(tasks, sem) == {k \in 1..Len(sem.waiters) : tasks[sem.waiters[k]].pc = "waiting"}
FirstNotWoken(tasks, sem) ==
    sem.waiters[CHOOSE k \in NotWoken(tasks, sem) : \A j \in NotWoken(tasks, sem) : k <= j]
wake_up_next(l) ==
    IF NotWoken(l.tasks, l.sem) = {} THEN l
    ELSE Loop([l.tasks EXCEPT ![FirstNotWoken(l.tasks, l.sem)].pc = "granted"],
              [l.sem EXCEPT !.value = l.sem.value - 1])

\* Semaphore.release
release(l) == wake_up_next(Loop(l.tasks, [l.sem EXCEPT !.value = l.sem.value + 1]))

\* async with self.semaphore, entered without the semaphore
acquire_unguarded(l, i) == Loop([l.tasks EXCEPT ![i].pc = "entered"], l.sem)

\* async with self.semaphore: Semaphore.acquire takes a slot at once, or
\* the coroutine joins the waiters
acquire(l, i) ==
    IF locked(l.sem)
    THEN Loop([l.tasks EXCEPT ![i].pc = "waiting"],
              [l.sem EXCEPT !.waiters = Append(l.sem.waiters, i)])
    ELSE Loop([l.tasks EXCEPT ![i].pc = "entered"],
              [l.sem EXCEPT !.value = l.sem.value - 1])

\* Semaphore.acquire after the wait: the waiter leaves the queue, and wakes
\* the next one while a slot is free
Remove(s, x) == SelectSeq(s, LAMBDA y : y # x)
resume(l, i) ==
    IF l.sem.value > 0
    THEN wake_up_next(Loop([l.tasks EXCEPT ![i].pc = "entered"],
                           [l.sem EXCEPT !.waiters = Remove(l.sem.waiters, i)]))
    ELSE Loop([l.tasks EXCEPT ![i].pc = "entered"],
              [l.sem EXCEPT !.waiters = Remove(l.sem.waiters, i)])

\* rate_limit_delay: asyncio.sleep(1.0 / self.rate_limit) when a rate limit
\* is set; Delay is that time in ticks of the clock
Delay == 2
rate_limit_delay(task, rate_limit, t) ==
    IF IsNone(rate_limit) \/ rate_limit = Some(0) THEN [task EXCEPT !.pc = "get"]
    ELSE [task EXCEPT !.pc = "sleeping", !.wake = t + Delay]

\* rate_limit_delay that never sleeps
rate_limit_delay_skipped(task, rate_limit, t) == [task EXCEPT !.pc = "get"]

\* the body of probe_endpoint up to its first await inside the semaphore
entered(l, i, rate_limit, t) ==
    IF l.tasks[i].pc = "entered"
    THEN Loop([l.tasks EXCEPT ![i] = rate_limit_delay(l.tasks[i], rate_limit, t)], l.sem)
    ELSE l

\* the requests sent by this step: client.get of every coroutine that
\* reached it
Dispatched(before, after, t) ==
    IF before.pc # "get" /\ after.pc = "get" THEN <<t>> ELSE <<>>

\* what the three requests of a probe may do
Raises == [kind |-> "raises"]
Response(status_code, html) == [kind |-> "returns", status_code |-> status_code, html |-> html]
Returns(v) == [kind |-> "returns", v |-> v]
GET_OUTCOMES == {Raises, Response(200, TRUE), Response(401, FALSE)}
HEADERS_OUTCOMES == {Raises, Returns(Signals({"no_csp"}))}
JS_OUTCOMES == {Raises, Returns(<<<<"/","a","p","i","/","m","e">>>>)}

\* except Exception, or the end of the try block: return endpoint_data,
\* which leaves the semaphore
returned(l, i, task) == release(Loop([l.tasks EXCEPT ![i] = [task EXCEPT !.pc = "done"]], l.sem))
failed(l, i) == returned(l, i, [l.tasks[i] EXCEPT !.failed = TRUE])

\* response = await client.get(...); endpoint_data["status_code"] = ...
get_done(l, i, out) ==
    IF out.kind = "raises" THEN failed(l, i)
    ELSE Loop([l.tasks EXCEPT ![i].status_code = Some(out.status_code),
                              ![i].html = out.html, ![i].pc = "headers"], l.sem)

\* header_analysis = await probe_headers(...); then the content type decides
\* whether extract_js_endpoints is awaited
headers_done(l, i, out) ==
    IF out.kind = "raises" THEN failed(l, i)
    ELSE IF l.tasks[i].html
    THEN Loop([l.tasks EXCEPT ![i].header_analysis = out.v, ![i].pc = "js"], l.sem)
    ELSE returned(l, i, [l.tasks[i] EXCEPT !.header_analysis = out.v])

\* js_endpoints = await extract_js_endpoints(...)
js_done(l, i, out) ==
    IF out.kind = "raises" THEN failed(l, i)
    ELSE returned(l, i, [l.tasks[i] EXCEPT !.js_endpoints = out.v])

\* endpoint_data
endpoint_data(task) ==
    [url |-> task.url, status_code |-> task.status_code,
     header_analysis |-> task.header_analysis, js_endpoints |-> task.js_endpoints]


(***************************************************************************)
(* One probe phase: gather() over the URLs, to its result.                 *)
(***************************************************************************)
NProbes == 3
PROBE_URLS == <<UrlRoot, UrlParam, UrlApi, UrlLogout>>
CONCURRENCIES == {0, 1, 2, 3}
RATE_LIMITS == {None, Some(0), Some(5)}
MaxTime == 2

ProbeInit ==
    /\ StoreInit
    /\ call = NoCall
    /\ ret = PyNone
    /\ cfg \in {[mode |-> "probe", concurrency |-> c, rate_limit |-> r] :
                  c \in CONCURRENCIES, r \in RATE_LIMITS}
    /\ pc = "probe"
    /\ idx = 0
    /\ harvest_results = <<>>
    /\ hHarvest = <<>>
    /\ all_urls = {PROBE_URLS[i] : i \in 1..NProbes}
    /\ url_to_sources = <<>>
    /\ url_sources = <<>>
    /\ merged = <<>>
    /\ endpoints = <<>>
    /\ scored = <<>>
    /\ probe_tasks = [i \in 1..NProbes |-> ProbeTask(PROBE_URLS[i])]
    /\ semaphore = [value |-> cfg.concurrency, waiters |-> <<>>]
    /\ now = 0
    /\ hDispatch = <<>>
    /\ exported = NoExport

\* the step of coroutine i that ends in the state l of the loop
TaskStep(i, l) ==
    /\ probe_tasks' = l.tasks
    /\ semaphore' = l.sem
    /\ hDispatch' = hDispatch \o Dispatched(probe_tasks[i], l.tasks[i], now)
    /\ UNCHANGED <<storeVars, fnVars, cfg, pc, idx, harvest_results, hHarvest, all_urls,
                   url_to_sources, url_sources, merged, endpoints, scored, now, exported>>

\* the first step of a coroutine, in the order gather() scheduled them
TaskStart(i) ==
    /\ cfg.mode = "probe"
    /\ probe_tasks[i].pc = "created"
    /\ \A j \in 1..(i - 1) : probe_tasks[j].pc # "created"
    /\ TaskStep(i, entered(acquire(Loop(probe_tasks, semaphore), i), i, cfg.rate_limit, now))

\* gather() schedules every coroutine at once: each has run to its first
\* await before the loop handles any wake-up, timer or response
Started == \A i \in 1..NProbes : probe_tasks[i].pc # "created"

\* a woken waiter goes on
TaskResume(i) ==
    /\ cfg.mode = "probe"
    /\ Started
    /\ probe_tasks[i].pc = "granted"
    /\ TaskStep(i, entered(resume(Loop(probe_tasks, semaphore), i), i, cfg.rate_limit, now))

\* asyncio.sleep is over, not before its time: the request is sent
TaskWake(i) ==
    /\ cfg.mode = "probe"
    /\ Started
    /\ probe_tasks[i].pc = "sleeping"
    /\ now >= probe_tasks[i].wake
    /\ TaskStep(i, Loop([probe_tasks EXCEPT ![i].pc = "get"], semaphore))

GetDone(i) ==
    /\ cfg.mode = "probe"
    /\ Started
    /\ probe_tasks[i].pc = "get"
    /\ \E out \in GET_OUTCOMES : TaskStep(i, get_done(Loop(probe_tasks, semaphore), i, out))

HeadersDone(i) ==
    /\ cfg.mode = "probe"
    /\ Started
    /\ probe_tasks[i].pc = "headers"
    /\ \E out \in HEADERS_OUTCOMES :
          TaskStep(i, headers_done(Loop(probe_tasks, semaphore), i, out))

JsDone(i) ==
    /\ cfg.mode = "probe"
    /\ Started
    /\ probe_tasks[i].pc = "js"
    /\ \E out \in JS_OUTCOMES : TaskStep(i, js_done(Loop(probe_tasks, semaphore), i, out))

\* endpoints = await asyncio.gather(*probe_tasks): the records in the order
\* of the coroutines, once all have returned
GatherDone ==
    /\ cfg.mode = "probe"
    /\ pc = "probe"
    /\ \A i \in 1..NProbes : probe_tasks[i].pc = "done"
    /\ endpoints' = [i \in 1..NProbes |-> endpoint_data(probe_tasks[i])]
    /\ pc' = "probed"
    /\ UNCHANGED <<storeVars, fnVars, cfg, probeVars, idx, harvest_results, hHarvest,
                   all_urls, url_to_sources, url_sources, merged, scored>>

\* time passes while a coroutine sleeps or a request is under way
Pending(task) == task.pc \in {"sleeping", "get", "headers", "js"}
Tick ==
    /\ cfg.mode = "probe"
    /\ Started
    /\ \E i \in 1..NProbes : Pending(probe_tasks[i])
    /\ \/ now < MaxTime
       \/ \E i \in 1..NProbes : probe_tasks[i].pc = "sleeping" /\ probe_tasks[i].wake > now
    /\ now' = now + 1
    /\ UNCHANGED <<storeVars, fnVars, cfg, pc, idx, harvest_results, hHarvest, all_urls,
                   url_to_sources, url_sources, merged, endpoints, scored, probe_tasks,
                   semaphore, hDispatch, exported>>

NextProbe ==
    \/ \E i \in 1..NProbes :
          \/ TaskStart(i)
          \/ TaskResume(i)
          \/ TaskWake(i)
          \/ GetDone(i)
          \/ HeadersDone(i)
          \/ JsDone(i)
    \/ GatherDone
    \/ Tick
SpecProbe == ProbeInit /\ [][NextProbe]_vars


(***************************************************************************)
(* The probe phase: the concurrency ceiling, failed probes, the rate       *)
(* limit.                                                                  *)
(***************************************************************************)
\* a probe is in flight from the moment it holds a slot of the semaphore to
\* the moment it gives it back; a probe waits while it is in the queue of the
\* semaphore and no slot was handed to it
HoldsSlot(task) == task.pc \in {"granted", "entered", "sleeping", "get", "headers", "js"}
InFlight == {i \in 1..NProbes : HoldsSlot(probe_tasks[i])}
Waiting == {i \in 1..NProbes : probe_tasks[i].pc = "waiting"}

\* C24: during the probe phase, in every interleaving of the probe tasks,
\* at most `concurrency` probes are in flight at any moment, and a probe
\* waits for a slot only while `concurrency` other probes are in flight.
C24_AtMostConcurrencyInFlight ==
    cfg.mode = "probe" =>
        /\ Cardinality(InFlight) <= cfg.concurrency
        /\ Waiting # {} => Cardinality(InFlight) = cfg.concurrency

\* two probes are in flight, the third waits, and later a slot is handed on
C24_Witness ==
    /\ cfg.mode = "probe"
    /\ cfg.concurrency = 2
    /\ probe_tasks[1].pc = "done"
    /\ probe_tasks[2].pc \in {"get", "headers", "js"}
    /\ probe_tasks[3].pc = "granted"
    /\ semaphore.value = 0

AllAbsent(record) ==
    /\ IsNone(record.status_code)
    /\ IsNone(record.header_analysis)
    /\ record.js_endpoints = <<>>

\* C25: a probe that times out or fails results in a record for that URL
\* with all probe fields absent; every probe task completes and releases its
\* slot, the batch returns exactly one record per candidate URL, and the
\* records of the other URLs are unaffected.  Stated of the result of
\* gather(): one record per URL in the order of the URLs, no slot held, and
\* the record of each failed probe without any probe field.
C25_FailedProbeLeavesAllFieldsAbsent ==
    (cfg.mode = "probe" /\ pc = "probed") =>
        /\ Len(endpoints) = NProbes
        /\ semaphore.value = cfg.concurrency
        /\ \A i \in 1..NProbes :
              /\ endpoints[i].url = PROBE_URLS[i]
              /\ probe_tasks[i].failed => AllAbsent(endpoints[i])

Configured(rate_limit) == ~IsNone(rate_limit) /\ rate_limit # Some(0)

\* C26: when a rate limit is configured, any two probe dispatches are
\* separated by at least the fixed delay of 1/rate_limit seconds, whatever the
\* concurrency limit and the number of candidate URLs; without a rate limit
\* no delay is inserted.
C26_DispatchesAreSeparatedByDelay ==
    cfg.mode = "probe" =>
        IF Configured(cfg.rate_limit)
        THEN \A j \in 1..Len(hDispatch) : \A k \in (j + 1)..Len(hDispatch) :
                hDispatch[k] - hDispatch[j] >= Delay
        ELSE \A i \in 1..NProbes : probe_tasks[i].pc # "sleeping"


(***************************************************************************)
(* The command: missing tools, the cap on the URLs probed.                 *)
(***************************************************************************)
\* the exit code of the command once it has ended: an exception that
\* nothing catches ends the interpreter with code 1
Ended == pc \in {"done", "exit1", "exit2", "raised", "harvester_raised"}
ExitCode ==
    IF pc = "done" THEN 0 ELSE IF pc = "exit2" THEN 2 ELSE 1

\* a required tool is unavailable: httpx, or katana when it is enabled
RequiredUnavailable ==
    \/ Httpx \notin cfg.installed
    \/ Katana \in cfg.tools /\ Katana \notin cfg.installed
OptionalUnavailable == (cfg.tools \cap {Gau, Gospider, Hakrawler}) \ cfg.installed
Tagged(tag) == {u \in DOMAIN url_sources : tag \in url_sources[u]}

C30_MergedNeverExceedsMaxUrls ==
    (cfg.mode = "reap" /\ pc \in {"probe", "score", "done", "exit1"} /\ cfg.max_urls >= 0) =>
        /\ Len(merged) <= cfg.max_urls
        /\ merged = Take(SelectSeq(
                           FirstSeen(Candidates(cfg.target, harvest_results), <<>>),
                           LAMBDA u : Keep(u, cfg.policy)),
                         cfg.max_urls)


(***************************************************************************)
(* Technologies in JuiceScore; monotonicity of the scores.                 *)
(***************************************************************************)
JuiceOf(c) == compute_reapscore(c).v.subs.juice_score
NoTech(c) == [c EXCEPT !.tech = None]
HighValueEntries(c) == technology_entries(OrEmpty(c.tech))
NamesTechnology(entry, c) ==
    /\ entry.rule = "tech"
    /\ \E k \in 1..Len(OrEmpty(c.tech)) : entry.tech = c.tech[2][k]

\* C28: JuiceScore takes detected high-value technology fingerprints into
\* account: of two calls identical in every other input and with J below
\* 100, the one whose detected technologies include a high-value fingerprint
\* has a strictly higher J, and a reason naming the technology, than the one
\* with no detected technology.
C28_HighValueTechRaisesJuice ==
    (ReapReturned /\ HighValueEntries(call) # <<>> /\ JuiceOf(NoTech(call)) < 100) =>
        /\ ret.v.subs.juice_score > JuiceOf(NoTech(call))
        /\ \E i \in 1..Len(ret.v.reasons) : NamesTechnology(ret.v.reasons[i], call)


\* source names that may be added, and extensions that may be appended
ADDED_SOURCES == {<<"r","o","b","o","t","s">>, <<"G","a","u">>}
APPENDED_EXTENSIONS == {ExtTech, ExtNegative, TechnologyScorer}
WithSource(c, s) == [c EXCEPT !.sources = c.sources \cup {s}]
WithExtension(c, ext) == [c EXCEPT !.extensions = Some(Append(OrEmpty(c.extensions), ext))]
NonNegativeWeights(w) == \A k \in DOMAIN w : ~IsNaN(w[k]) /\ ~IsNegative(w[k])
NotBelow(r, other) ==
    /\ other.kind = "value"
    /\ \A k \in DOMAIN r.v.subs : other.v.subs[k] >= r.v.subs[k]
    /\ other.v.score >= r.v.score

\* C29: score monotonicity: with the URL, the probe fields and non-negative
\* weights held fixed, adding a source name to the source set, or appending
\* an extension to the extension list, never decreases any subscore and
\* never decreases the composite score.
C29_ScoresAreMonotone ==
    (ReapReturned /\ NonNegativeWeights(ret.v.weights)) =>
        /\ \A s \in ADDED_SOURCES : NotBelow(ret, compute_reapscore(WithSource(call, s)))
        /\ \A ext \in APPENDED_EXTENSIONS :
              NotBelow(ret, compute_reapscore(WithExtension(call, ext)))

\* a call with the default weights whose score rises when "robots" is added
\* to its sources, and rises when an extension with a bonus is appended
C29_Witness ==
    /\ ReapReturned
    /\ IsNone(call.weights)
    /\ <<"r","o","b","o","t","s">> \notin call.sources
    /\ compute_reapscore(WithSource(call, <<"r","o","b","o","t","s">>)).v.subs.harvest_index
          = ret.v.subs.harvest_index + 20
    /\ compute_reapscore(WithSource(call, <<"r","o","b","o","t","s">>)).v.score > ret.v.score
    /\ compute_reapscore(WithExtension(call, ExtTech)).v.subs.juice_score
          = ret.v.subs.juice_score + TechBonus
    /\ compute_reapscore(WithExtension(call, ExtTech)).v.score > ret.v.score

====
